---- MODULE Spec2Model ----
(***************************************************************************)
(* A model of the flatmap SVG exporter of cmlibs.exporter                  *)
(* (src/src/cmlibs/exporter/flatmapsvg.py): the tolerance engine, the      *)
(* quantized point keys, the segment stitcher, the network assembler and   *)
(* the control flow of export_flatmapsvg_from_scene.                       *)
(*                                                                         *)
(* Numbers.  A Python float is modelled by the decimal number its default  *)
(* string form f"{n}" denotes: a record [neg, digits, exp] standing for    *)
(* (-1)^neg * digits * 10^exp, digits most significant first, without      *)
(* leading or trailing zeros (zero is <<0>> with exp 0).  Coordinates      *)
(* carry up to 17 significant digits, which no machine integer of the      *)
(* model checker holds, hence the digit sequences.  Arithmetic on them is  *)
(* exact decimal arithmetic.                                               *)
(***************************************************************************)
EXTENDS Integers, Sequences, FiniteSets, TLC

VARIABLES
    pc,             \* position of the operation under way
    numbers,        \* _calculate_tolerance: the batch of numbers
    tolerance,      \* _calculate_tolerance: the value returned
    first_tolerance,        \* the value returned for the batch before it was scaled
    curve,          \* _connected_segments: the list of curves
    key_tolerance,  \* _connected_segments, _determine_network: 1 / tolerance
    begin_hash,     \* _connected_segments: start key -> curve index;
                    \* _determine_network: key -> first index in points
    uf,             \* _connected_segments: UnionFind.parent
    sets,           \* _connected_segments: root -> members, in insertion order
    segments,       \* _connected_segments: the chains found so far
    set_index,      \* _connected_segments: position of "for s in sets"
    seg,            \* _connected_segments: the chain under construction
    s,              \* _connected_segments: the curve index last followed
    key,            \* _connected_segments: the end key of curve[s]
    runs,           \* number of stitcher calls started on (orderings of) the list
    first_chains,   \* the chains of the first call, as end-point key pairs
    end_point_data, \* _determine_network: group -> the end points of its chains
    zinc,           \* _determine_network: what the Zinc field queries answer
    start_value,    \* _determine_network: group -> material value at its start
    end_value,      \* _determine_network: group -> material value at its end
    min_value,      \* _determine_network: group -> the nearest parent candidate
    network_points, \* _determine_network: group -> its (offset, point) list
    points,         \* _determine_network: the flattened point list
    index_map,      \* _determine_network: first index of a key -> canonical index
    final_network_points,   \* _determine_network: the canonical points
    final_network,  \* _determine_network: group -> the labels of its edge
    scene,          \* export: the elements and the groups of the region
    analysis,       \* export: the value returned by _analyze_elements
    path_points,    \* export: group label -> the path points of its elements
    svg_id_group_map,       \* export: svg id -> group name
    connected_segments,     \* export: group label -> its chains
    warnings,       \* export: the warnings logged by _collect_curves_into_segments
    network_plan,   \* export: group name -> the NetworkEdge of the group
    svg,            \* export: the circles and the paths of the svg written
    properties,     \* export: the content written to properties.json
    raised,         \* export: the exception that ended the call
    exporter,       \* ArgonSceneExporter: the fields of the object
    arguments,      \* ArgonSceneExporter.export: output_target of every call so far
    target_history, \* _output_target after __init__ and at the start of every call
    files,          \* ArgonSceneExporter.export: the files written by the last call
    loop_index,     \* _connected_segments: index of "for index, c in enumerate(curve)"
    called,         \* _connected_segments: the calls of uf.union made so far
    calls,          \* webgl export: the methods called so far, in order
    resources,      \* export_webgl_from_scene: what getBuffer gives for every resource
    written,        \* export_webgl_from_scene: the resources written, in order
    metadata        \* export_webgl_from_scene: the content of the metadata file

tolVars == <<numbers, tolerance, first_tolerance>>

unionVars == <<loop_index, called>>

stitchVars == <<curve, key_tolerance, begin_hash, uf, sets, segments,
                set_index, seg, s, key, runs, first_chains, unionVars>>

netVars == <<end_point_data, zinc, start_value, end_value, min_value,
             network_points, points, index_map, final_network_points,
             final_network>>

sceneVars == <<scene, analysis, path_points, svg_id_group_map, connected_segments,
               warnings, network_plan, svg, properties, raised>>

webVars == <<calls, resources, written, metadata>>

objVars == <<exporter, arguments, target_history, files, webVars>>

expVars == <<sceneVars, objVars>>

vars == <<pc, tolVars, stitchVars, netVars, expVars>>

(***************************************************************************)
(* Bounds of the model.                                                    *)
(***************************************************************************)
MaxBatch == 3

MaxCurves == 3

NumPoints == 4

(***************************************************************************)
(* Decimal numbers.                                                        *)
(***************************************************************************)
Dec(neg, digits, exp) == [neg |-> neg, digits |-> digits, exp |-> exp]

Zero == Dec(FALSE, <<0>>, 0)

IsZero(n) == n.digits = <<0>>

Zeros(k) == [i \in 1..k |-> 0]

RECURSIVE StripLeading(_)
StripLeading(ds) ==
    IF Len(ds) > 1 /\ ds[1] = 0 THEN StripLeading(Tail(ds)) ELSE ds

RECURSIVE TrailingZeros(_)
TrailingZeros(ds) ==
    IF Len(ds) > 1 /\ ds[Len(ds)] = 0
    THEN 1 + TrailingZeros(SubSeq(ds, 1, Len(ds) - 1))
    ELSE 0

\* Decimal.normalize(): the coefficient without trailing zeros, zero as 0E+0.
DecimalNormalize(n) ==
    LET ds == StripLeading(n.digits)
        k  == TrailingZeros(ds)
    IN  IF ds = <<0>> THEN Zero
        ELSE Dec(n.neg, SubSeq(ds, 1, Len(ds) - k), n.exp + k)

\* Decimal(f"{n}"): the default string form of a float, read as a Decimal.
\* An integral float below 1e16 is written in fixed notation with a
\* trailing ".0" (1.0, 100.0), so its coefficient carries the zeros; every
\* other float is written with exactly its significant digits.
FloatStr(n) ==
    IF IsZero(n) THEN Dec(n.neg, <<0>>, -1)
    ELSE IF n.exp >= 0 /\ Len(n.digits) + n.exp <= 16
         THEN Dec(n.neg, n.digits \o Zeros(n.exp + 1), -1)
         ELSE n

\* The exponent of n in scientific notation d.ddd * 10^e (n is not zero).
SciExp(n) == Len(n.digits) + n.exp - 1

_count_significant_figs(num_str) == Len(DecimalNormalize(num_str).digits)

\* math.fabs(n) > 1e-08
AbsAbove1e_8(n) ==
    /\ ~IsZero(n)
    /\ \/ SciExp(n) > -8
       \/ SciExp(n) = -8 /\ n.digits # <<1>>

\* math.ceil(math.log10(abs_n if abs_n > 1e-08 else 1.0))
CeilLog10(n) ==
    IF AbsAbove1e_8(n)
    THEN IF n.digits = <<1>> THEN SciExp(n) ELSE SciExp(n) + 1
    ELSE 0

Min2(a, b) == IF a <= b THEN a ELSE b

Max2(a, b) == IF a >= b THEN a ELSE b

\* min over the batch of the significant-figure counts (the batch is not empty)
RECURSIVE MinSigFigs(_)
MinSigFigs(ns) ==
    IF Len(ns) = 1 THEN _count_significant_figs(FloatStr(ns[1]))
    ELSE Min2(_count_significant_figs(FloatStr(ns[1])), MinSigFigs(Tail(ns)))

\* max over the batch of the magnitudes (the batch is not empty)
RECURSIVE MaxSigDigit(_)
MaxSigDigit(ns) ==
    IF Len(ns) = 1 THEN CeilLog10(ns[1])
    ELSE Max2(CeilLog10(ns[1]), MaxSigDigit(Tail(ns)))

PowerOfTen(e) == Dec(FALSE, <<1>>, e)

SigFigFloor == 14

LoosePower == 8

\* _calculate_tolerance with the looser exponent returned as a factor
CalculateToleranceFactor(ns) ==
    IF ns = <<>> THEN Zero
    ELSE LET tolerance_power ==
                 Max2(SigFigFloor, MinSigFigs(ns)) - MaxSigDigit(ns) - 2
         IN  PowerOfTen(IF tolerance_power > 0 THEN -tolerance_power ELSE LoosePower)

\* _calculate_tolerance(numbers).  With an empty batch the loop leaves
\* min_sig_figs = inf and max_sig_digit = -inf, so tolerance_power is
\* inf - (-inf) - 2 = inf and 10 ** (-inf) is 0.0.
_calculate_tolerance(ns) ==
    IF ns = <<>> THEN Zero
    ELSE LET min_sig_figs    == Max2(SigFigFloor, MinSigFigs(ns))
             max_sig_digit   == MaxSigDigit(ns)
             tolerance_power == min_sig_figs - max_sig_digit - 2
         IN  PowerOfTen(IF tolerance_power > 0 THEN -tolerance_power ELSE -LoosePower)

(***************************************************************************)
(* Quantized point keys.                                                   *)
(***************************************************************************)
\* 1 / tolerance.  The tolerance is 0.0 or a power of ten.
Reciprocal(t) == PowerOfTen(-t.exp)

\* p * tolerance for a power of ten
TimesPowerOfTen(n, t) ==
    IF IsZero(n) THEN Zero ELSE Dec(n.neg, n.digits, n.exp + t.exp)

\* int(x): truncation toward zero
IntTrunc(n) ==
    IF n.exp >= 0 THEN n
    ELSE LET keep == Len(n.digits) + n.exp
         IN  IF keep <= 0 THEN Zero
             ELSE DecimalNormalize(Dec(n.neg, SubSeq(n.digits, 1, keep), 0))

_create_key(pt, tol) == [i \in DOMAIN pt |-> IntTrunc(TimesPowerOfTen(pt[i], tol))]

(***************************************************************************)
(* UnionFind.  Curve indices are 1..n here (0..n-1 in the source); -1      *)
(* marks a root as in the source.                                          *)
(***************************************************************************)
EmptyHash == [x \in {} |-> 0]

UnionFindInit(v) == [i \in 1..v |-> -1]

RECURSIVE FindRoot(_, _)
FindRoot(parent, i) ==
    IF parent[i] = -1 THEN i ELSE FindRoot(parent, parent[i])

RECURSIVE FindPath(_, _)
FindPath(parent, i) ==
    IF parent[i] = -1 THEN {} ELSE {i} \cup FindPath(parent, parent[i])

\* find(i): the root of i, every element on the way re-parented to it
find(parent, i) ==
    LET root == FindRoot(parent, i)
        path == FindPath(parent, i)
    IN  [root   |-> root,
         parent |-> [j \in DOMAIN parent |-> IF j \in path THEN root ELSE parent[j]]]

\* a union that attaches root_j under root_i
UnionUnderFirst(parent, i, j) ==
    LET fi == find(parent, i)
        fj == find(fi.parent, j)
    IN  IF fi.root # fj.root
        THEN [fj.parent EXCEPT ![fj.root] = fi.root]
        ELSE fj.parent

\* union(i, j): root_i is attached under root_j
union(parent, i, j) ==
    LET fi == find(parent, i)
        fj == find(fi.parent, j)
    IN  IF fi.root # fj.root
        THEN [fj.parent EXCEPT ![fi.root] = fj.root]
        ELSE fj.parent

\* the value union(i, j) returns: root_j when the roots differ, root_i
\* otherwise
UnionReturn(parent, i, j) ==
    LET root_i == FindRoot(parent, i)
        root_j == FindRoot(parent, j)
    IN  IF root_i # root_j THEN root_j ELSE root_i

(***************************************************************************)
(* _connected_segments.  A curve is <<b0, b1, b2, b3>>.                     *)
(***************************************************************************)
\* the numbers the tolerance is taken from: c[i][j] for i in [0, 3], j in [0, 1]
RECURSIVE CurveNumbers(_)
CurveNumbers(cs) ==
    IF cs = <<>> THEN <<>>
    ELSE <<cs[1][1][1], cs[1][1][2], cs[1][4][1], cs[1][4][2]>> \o CurveNumbers(Tail(cs))

\* the map keyed by the end points c[3] instead of the start points
RECURSIVE BuildEndHash(_, _, _, _)
BuildEndHash(cs, tol, index, hash) ==
    IF index > Len(cs) THEN hash
    ELSE LET k == _create_key(cs[index][4], tol)
         IN  BuildEndHash(cs, tol, index + 1,
                 [x \in DOMAIN hash \cup {k} |-> IF x = k THEN index ELSE hash[x]])

\* for index, c in enumerate(curve): begin_hash[key of c[0]] = index
RECURSIVE BuildBeginHash(_, _, _, _)
BuildBeginHash(cs, tol, index, hash) ==
    IF index > Len(cs) THEN hash
    ELSE LET k == _create_key(cs[index][1], tol)
         IN  BuildBeginHash(cs, tol, index + 1,
                 [x \in DOMAIN hash \cup {k} |-> IF x = k THEN index ELSE hash[x]])

\* the loop with the arguments of union exchanged
RECURSIVE UnionLinksExchanged(_, _, _, _, _)
UnionLinksExchanged(cs, tol, hash, index, parent) ==
    IF index > Len(cs) THEN parent
    ELSE LET y_cur == _create_key(cs[index][4], tol)
         IN  UnionLinksExchanged(cs, tol, hash, index + 1,
                 IF y_cur \in DOMAIN hash
                 THEN union(parent, index, hash[y_cur])
                 ELSE parent)

\* for index, c in enumerate(curve): if the key of c[3] is in begin_hash,
\* uf.union(begin_hash[y_cur], index)
RECURSIVE UnionLinks(_, _, _, _, _)
UnionLinks(cs, tol, hash, index, parent) ==
    IF index > Len(cs) THEN parent
    ELSE LET y_cur == _create_key(cs[index][4], tol)
         IN  UnionLinks(cs, tol, hash, index + 1,
                 IF y_cur \in DOMAIN hash
                 THEN union(parent, hash[y_cur], index)
                 ELSE parent)

\* sets with one entry for every curve, whatever its root
RECURSIVE BuildSetsPerCurve(_, _, _)
BuildSetsPerCurve(parent, i, acc) ==
    IF i > Len(parent) THEN [parent |-> parent, sets |-> acc]
    ELSE BuildSetsPerCurve(find(parent, i).parent, i + 1,
                           Append(acc, [root |-> i, members |-> <<i>>]))

\* for i in range(curve_size): sets[uf.find(i)].append(i), the dictionary
\* kept as the sequence of its items in insertion order
RECURSIVE BuildSets(_, _, _)
BuildSets(parent, i, acc) ==
    IF i > Len(parent) THEN [parent |-> parent, sets |-> acc]
    ELSE LET f == find(parent, i)
             at == { k \in DOMAIN acc : acc[k].root = f.root }
         IN  BuildSets(f.parent, i + 1,
                 IF at = {}
                 THEN Append(acc, [root |-> f.root, members |-> <<i>>])
                 ELSE [k \in DOMAIN acc |->
                          IF k \in at
                          THEN [acc[k] EXCEPT !.members = Append(@, i)]
                          ELSE acc[k]])

\* The chain under construction is recorded up to SegCap curves: a longer
\* one keeps growing in the program and stays as it is here.
SegCap == 2 * MaxCurves + 2

SegAppend(sg, i) == IF Len(sg) < SegCap THEN Append(sg, i) ELSE sg

\* lines 642-649: "while key in begin_hash", from the chain sg whose last
\* curve ends at key; the loop ends when the key is no start key or when it
\* is the key it was one turn before
RECURSIVE FollowFrom(_, _, _, _, _, _)
FollowFrom(cs, tol, hash, sg, k, fuel) ==
    IF k \notin DOMAIN hash \/ fuel = 0 THEN sg
    ELSE LET next     == hash[k]
             next_key == _create_key(cs[next][4], tol)
         IN  IF next_key = k THEN SegAppend(sg, next)
             ELSE FollowFrom(cs, tol, hash, SegAppend(sg, next), next_key, fuel - 1)

\* lines 639-652: for s in sets, the chain that starts with curve[s]
ChainsFromSets(cs, tol, hash, roots) ==
    [i \in DOMAIN roots |->
        FollowFrom(cs, tol, hash, <<roots[i].root>>,
                   _create_key(cs[roots[i].root][4], tol), SegCap)]

\* _connected_segments as a function of the list of curves: the chains as
\* lists of curve indices
ChainIndices(cs) ==
    LET tol == _calculate_tolerance(CurveNumbers(cs))
    IN  IF IsZero(tol) THEN [raised |-> TRUE, segments |-> <<>>]
        ELSE LET kt     == Reciprocal(tol)
                 hash   == BuildBeginHash(cs, kt, 1, EmptyHash)
                 parent == UnionLinks(cs, kt, hash, 1, UnionFindInit(Len(cs)))
                 built  == BuildSets(parent, 1, <<>>)
             IN  [raised |-> FALSE,
                  segments |-> ChainsFromSets(cs, kt, hash, built.sets)]

\* the chains as lists of curves
_connected_segments(cs) ==
    LET chains == ChainIndices(cs)
    IN  [raised |-> chains.raised,
         segments |-> [i \in DOMAIN chains.segments |->
                          [j \in DOMAIN chains.segments[i] |-> cs[chains.segments[i][j]]]]]

(***************************************************************************)
(* The tolerance engine on batches of sample numbers.                      *)
(***************************************************************************)
SampleNumbers ==
    { Zero,
      Dec(FALSE, <<1>>, 0),                                      \* 1.0
      Dec(FALSE, <<5>>, 0),                                      \* 5.0
      Dec(TRUE,  <<3,8,6,6,5,3,9,4,0,6,8,4,2,0,7,9>>, -14),      \* -38.66539406842079
      Dec(FALSE, <<1,3,5,3,3,8,8,5,4,4,0,1,1,6,5,7>>, -13),      \* 135.3388544011657
      Dec(FALSE, <<1,2,3,4,5,6,7,8,9,0,1,2,3,4,5,6,7>>, -17),    \* 0.12345678901234567
      Dec(FALSE, <<1>>, -8),                                     \* 1e-08
      Dec(FALSE, <<2>>, -8),                                     \* 2e-08
      Dec(FALSE, <<1>>, -9),                                     \* 1e-09
      Dec(FALSE, <<1>>, 12),                                     \* 1e12
      Dec(FALSE, <<2,5>>, 12) }                                  \* 2.5e13

Batches == UNION { [1..k -> SampleNumbers] : k \in 0..MaxBatch }

TolIdle == numbers = <<>> /\ tolerance = Zero /\ first_tolerance = <<>>

\* no union loop is under way
UnionIdle == loop_index = 0 /\ called = <<>>

\* no webgl export is under way
WebIdle == calls = <<>> /\ resources = <<>> /\ written = <<>> /\ metadata = <<>>

StitchIdle ==
    /\ curve = <<>> /\ key_tolerance = Zero /\ begin_hash = EmptyHash
    /\ uf = <<>> /\ sets = <<>> /\ segments = <<>> /\ set_index = 0
    /\ seg = <<>> /\ s = 0 /\ key = <<>> /\ runs = 0 /\ first_chains = {}
    /\ UnionIdle

NetIdle ==
    /\ end_point_data = <<>> /\ zinc = <<>> /\ start_value = <<>>
    /\ end_value = <<>> /\ min_value = <<>> /\ network_points = <<>>
    /\ points = <<>> /\ index_map = EmptyHash /\ final_network_points = <<>>
    /\ final_network = <<>>

ObjectIdle ==
    /\ exporter = <<>> /\ arguments = <<>> /\ target_history = <<>> /\ files = {}
    /\ WebIdle

SceneIdle ==
    /\ scene = <<>> /\ analysis = <<>> /\ path_points = <<>>
    /\ svg_id_group_map = <<>> /\ connected_segments = <<>>
    /\ warnings = <<>> /\ network_plan = <<>> /\ svg = <<>>
    /\ properties = <<>> /\ raised = "none"

ExportIdle == SceneIdle /\ ObjectIdle

InitTol ==
    /\ pc = "tol_call"
    /\ numbers \in Batches
    /\ tolerance = Zero
    /\ first_tolerance = <<>>
    /\ StitchIdle
    /\ NetIdle
    /\ ExportIdle

CalculateTolerance ==
    /\ pc = "tol_call"
    /\ tolerance' = _calculate_tolerance(numbers)
    /\ pc' = "tol_done"
    /\ UNCHANGED <<expVars, numbers, first_tolerance, stitchVars, netVars>>

NextTol == CalculateTolerance

SpecTol == InitTol /\ [][NextTol]_vars

(***************************************************************************)
(* The stitcher on lists of curves between the points p1 = [1, 1],         *)
(* p2 = [2, 2], ...                                                        *)
(***************************************************************************)
NULL == <<Zero, Zero>>

Pt(i) == <<Dec(FALSE, <<i>>, 0), Dec(FALSE, <<i>>, 0)>>

\* The lists of at most MaxCurves curves, each from one of the points to one
\* of the points.  The stitcher reads the points only through the equality of
\* their keys, so of the lists that differ by a renaming of the points one is
\* kept: the one that first mentions the points in the order p1, p2, ...
PointPairs == (1..NumPoints) \X (1..NumPoints)

PairLists == UNION { [1..k -> PointPairs] : k \in 0..MaxCurves }

Mentions(pl) == [j \in 1..(2 * Len(pl)) |-> pl[(j + 1) \div 2][2 - (j % 2)]]

InOrderOfMention(pl) ==
    LET m == Mentions(pl)
    IN  \A j \in DOMAIN m :
            \/ m[j] = 1
            \/ \E i \in 1..(j - 1) : m[i] >= m[j] - 1

CurveOf(pair) == <<Pt(pair[1]), NULL, NULL, Pt(pair[2])>>

CurveLists ==
    { [i \in DOMAIN pl |-> CurveOf(pl[i])] : pl \in { q \in PairLists : InOrderOfMention(q) } }

InitStitch ==
    /\ pc = "stitch_call"
    /\ TolIdle
    /\ NetIdle
    /\ ExportIdle
    /\ curve \in CurveLists
    /\ key_tolerance = Zero /\ begin_hash = EmptyHash
    /\ uf = <<>> /\ sets = <<>> /\ segments = <<>> /\ set_index = 0
    /\ seg = <<>> /\ s = 0 /\ key = <<>> /\ runs = 1 /\ first_chains = {}
    /\ UnionIdle

\* lines 607-636: the tolerance, begin_hash, the unions and the components.
\* 1 / 0.0 raises ZeroDivisionError.
Prepare ==
    /\ pc = "stitch_call"
    /\ LET tol == _calculate_tolerance(CurveNumbers(curve))
       IN  IF IsZero(tol)
           THEN /\ pc' = "stitch_raised"
                /\ UNCHANGED <<key_tolerance, begin_hash, uf, sets, set_index>>
           ELSE LET kt     == Reciprocal(tol)
                    hash   == BuildBeginHash(curve, kt, 1, EmptyHash)
                    parent == UnionLinks(curve, kt, hash, 1, UnionFindInit(Len(curve)))
                    built  == BuildSets(parent, 1, <<>>)
                IN  /\ key_tolerance' = kt
                    /\ begin_hash' = hash
                    /\ uf' = built.parent
                    /\ sets' = built.sets
                    /\ set_index' = 1
                    /\ pc' = "for_sets"
    /\ UNCHANGED <<expVars, tolVars, netVars, curve, segments, seg, s, key, runs, first_chains, unionVars>>

\* lines 639-641: for s in sets: seg = [curve[s]]; key = the end key of curve[s]
BeginSegment ==
    /\ pc = "for_sets"
    /\ set_index <= Len(sets)
    /\ s' = sets[set_index].root
    /\ seg' = <<s'>>
    /\ key' = _create_key(curve[s'][4], key_tolerance)
    /\ pc' = "while"
    /\ UNCHANGED <<expVars, tolVars, netVars, curve, key_tolerance, begin_hash, uf, sets, segments,
                   set_index, runs, first_chains, unionVars>>

\* lines 642-649: one turn of "while key in begin_hash"
FollowLink ==
    /\ pc = "while"
    /\ key \in DOMAIN begin_hash
    /\ s' = begin_hash[key]
    /\ seg' = SegAppend(seg, s')
    /\ key' = _create_key(curve[s'][4], key_tolerance)
    /\ pc' = IF key = key' THEN "break" ELSE "while"
    /\ UNCHANGED <<expVars, tolVars, netVars, curve, key_tolerance, begin_hash, uf, sets, segments,
                   set_index, runs, first_chains, unionVars>>

\* line 652: segments.append(seg), once the loop has ended or was broken out of
AppendSegment ==
    /\ \/ pc = "while" /\ key \notin DOMAIN begin_hash
       \/ pc = "break"
    /\ segments' = Append(segments, seg)
    /\ set_index' = set_index + 1
    /\ pc' = "for_sets"
    /\ UNCHANGED <<expVars, tolVars, netVars, curve, key_tolerance, begin_hash, uf, sets,
                   seg, s, key, runs, first_chains, unionVars>>

\* line 654: return segments
ReturnSegments ==
    /\ pc = "for_sets"
    /\ set_index > Len(sets)
    /\ pc' = "stitch_done"
    /\ UNCHANGED <<expVars, tolVars, netVars, stitchVars>>

NextStitch ==
    \/ Prepare
    \/ BeginSegment
    \/ FollowLink
    \/ AppendSegment
    \/ ReturnSegments

SpecStitch == InitStitch /\ [][NextStitch]_vars

\* The function runs to its end without being suspended: a step that can be
\* taken is taken.
\* Prepare is enabled exactly when pc = "stitch_call" and leaves that
\* position, so weak fairness of Prepare is []<>(pc # "stitch_call").
SpecStitchFair ==
    /\ SpecStitch
    /\ []<>(pc # "stitch_call")
    /\ WF_vars(BeginSegment \/ FollowLink \/ AppendSegment \/ ReturnSegments)

StartKey(i) == _create_key(curve[i][1], key_tolerance)

EndKey(i) == _create_key(curve[i][4], key_tolerance)

\* the chains as unordered pairs of the keys of their two end points
ChainEnds(segs) ==
    { {StartKey(segs[k][1]), EndKey(segs[k][Len(segs[k])])} : k \in DOMAIN segs }

\* A second call of the stitcher on the same curves in another order.
Reorder ==
    /\ pc = "stitch_done"
    /\ runs = 1
    /\ \E perm \in Permutations(DOMAIN curve) :
           curve' = [i \in DOMAIN curve |-> curve[perm[i]]]
    /\ first_chains' = ChainEnds(segments)
    /\ runs' = 2
    /\ pc' = "stitch_call"
    /\ key_tolerance' = Zero /\ begin_hash' = EmptyHash
    /\ uf' = <<>> /\ sets' = <<>> /\ segments' = <<>> /\ set_index' = 0
    /\ seg' = <<>> /\ s' = 0 /\ key' = <<>>
    /\ UNCHANGED <<expVars, tolVars, netVars, unionVars>>

NextReorder == NextStitch \/ Reorder

SpecReorder == InitStitch /\ [][NextReorder]_vars

(***************************************************************************)
(* Properties of the stitcher.                                             *)
(***************************************************************************)
\* The links of the list: curve j follows curve i when the end key of i is
\* the start key of j.
Follows(i, j) == EndKey(i) = StartKey(j)

Successors(i) == { j \in DOMAIN curve : Follows(i, j) }

Heads == { j \in DOMAIN curve : \A i \in DOMAIN curve : ~Follows(i, j) }

\* the curves met from curve i on along the links, at most fuel links far
RECURSIVE Walk(_, _)
Walk(i, fuel) ==
    IF fuel = 0 \/ Successors(i) = {} THEN <<i>>
    ELSE <<i>> \o Walk(CHOOSE j \in Successors(i) : TRUE, fuel - 1)

\* The links form pairwise disjoint simple open paths: the start keys are
\* pairwise distinct, the end keys are pairwise distinct, and no walk along
\* the links comes back to a curve.
SimpleOpenPaths ==
    /\ curve # <<>>
    /\ \A i, j \in DOMAIN curve : i # j => StartKey(i) # StartKey(j)
    /\ \A i, j \in DOMAIN curve : i # j => EndKey(i) # EndKey(j)
    /\ \A i \in DOMAIN curve : Len(Walk(i, Len(curve))) <= Len(curve)

\* C1: on a list whose links form k >= 1 pairwise disjoint simple open
\* paths, in any input order, _connected_segments returns exactly k chains,
\* and the chains are the paths: each begins with the curve that starts its
\* path and holds the curves of the path, each once, in path order.
C1_ChainsAreThePaths ==
    (pc = "stitch_done" /\ SimpleOpenPaths) =>
        /\ Len(segments) = Cardinality(Heads)
        /\ { segments[k] : k \in DOMAIN segments } = { Walk(h, Len(curve)) : h \in Heads }
        /\ \A i \in DOMAIN curve :
               Cardinality({ <<k, j>> \in (DOMAIN segments) \X (DOMAIN curve) :
                                j \in DOMAIN segments[k] /\ segments[k][j] = i }) = 1

\* C1 witness: three curves given out of path order were stitched into the
\* one chain of their path.
C1_Witness ==
    /\ pc = "stitch_done"
    /\ SimpleOpenPaths
    /\ Len(curve) = 3
    /\ Len(segments) = 1
    /\ segments[1] = <<3, 1, 2>>

\* C2: _connected_segments terminates on every finite curve list, lists
\* whose links form a cycle included.
C2_Terminates == <>(pc \in {"stitch_done", "stitch_raised"})

\* C3: the stitcher called on a reordering of a curve list returns the same
\* set of chains, compared as unordered pairs of end-point keys.
C3_OrderIndependent ==
    (pc = "stitch_done" /\ runs = 2) => ChainEnds(segments) = first_chains

IsPositive(n) == ~IsZero(n) /\ ~n.neg

\* The exponent as the tolerance engine is described: max(14, fewest
\* significant figures) - largest magnitude - 2, the magnitude of a value
\* being ceil(log10|n|), or 0 for the values that SmallAsZero holds of.
DescribedMagnitude(n, SmallAsZero(_)) ==
    IF IsZero(n) \/ SmallAsZero(n) THEN 0
    ELSE IF n.digits = <<1>> THEN SciExp(n) ELSE SciExp(n) + 1

DescribedExponent(ns, SmallAsZero(_)) ==
    LET figs == { Len(DecimalNormalize(FloatStr(ns[i])).digits) : i \in DOMAIN ns }
        mags == { DescribedMagnitude(ns[i], SmallAsZero) : i \in DOMAIN ns }
        least == CHOOSE f \in figs : \A g \in figs : f <= g
        most  == CHOOSE m \in mags : \A g \in mags : m >= g
    IN  (IF least < 14 THEN 14 ELSE least) - most - 2

Below1e_8(n) == SciExp(n) < -8

AtOrBelow1e_8(n) == SciExp(n) < -8 \/ (SciExp(n) = -8 /\ n.digits = <<1>>)

\* C9: _calculate_tolerance returns a strictly positive (finite) value for
\* every batch of numbers, the empty batch included.
C9_TolerancePositive ==
    pc = "tol_done" => IsPositive(tolerance)

\* C10 as stated: the value returned is 10^(-e) when e > 0 and 10^8
\* otherwise, a value with |n| below 1e-8 counting as magnitude 0.
C10_AsStated ==
    (pc = "tol_done" /\ numbers # <<>>) =>
        LET e == DescribedExponent(numbers, Below1e_8)
        IN  tolerance = PowerOfTen(IF e > 0 THEN -e ELSE 8)

\* C10 (amended): for a non-empty batch the value returned is 10^(-e) when
\* e > 0 and 10^(-8) otherwise, with e = max(14, fewest significant
\* figures) - largest magnitude - 2 and a value with |n| at or below 1e-8
\* counting as magnitude 0; for an empty batch the value returned is 0.0.
C10_ToleranceFormula ==
    pc = "tol_done" =>
        IF numbers = <<>> THEN tolerance = Zero
        ELSE LET e == DescribedExponent(numbers, AtOrBelow1e_8)
             IN  tolerance = PowerOfTen(IF e > 0 THEN -e ELSE -8)

\* C10 witness: a batch whose exponent is not positive was evaluated to 1e-08.
C10_Witness ==
    /\ pc = "tol_done"
    /\ numbers # <<>>
    /\ DescribedExponent(numbers, AtOrBelow1e_8) <= 0
    /\ tolerance = PowerOfTen(-8)

(***************************************************************************)
(* Vector arithmetic on coordinates (cmlibs.maths.vectorops sub and        *)
(* magnitude), for non-negative numbers.                                   *)
(***************************************************************************)
\* the digits of n written at exponent e, padded on the left to len digits
AlignDigits(n, e, len) ==
    Zeros(len - Len(n.digits) - (n.exp - e)) \o n.digits \o Zeros(n.exp - e)

CommonExp(a, b) == Min2(a.exp, b.exp)

CommonLen(a, b) ==
    Max2(Len(a.digits) + a.exp - CommonExp(a, b), Len(b.digits) + b.exp - CommonExp(a, b))

DigitsLess(x, y) ==
    \E i \in DOMAIN x : x[i] < y[i] /\ \A j \in 1..(i - 1) : x[j] = y[j]

\* a < b
DecLess(a, b) ==
    DigitsLess(AlignDigits(a, CommonExp(a, b), CommonLen(a, b)),
               AlignDigits(b, CommonExp(a, b), CommonLen(a, b)))

\* the borrow taken from digit i by the digits to its right, x >= y
RECURSIVE Borrow(_, _, _)
Borrow(x, y, i) ==
    IF i > Len(x) THEN 0
    ELSE IF x[i] - y[i] - Borrow(x, y, i + 1) < 0 THEN 1 ELSE 0

\* the digits of x - y from digit i on, x >= y
RECURSIVE SubDigits(_, _, _)
SubDigits(x, y, i) ==
    IF i > Len(x) THEN <<>>
    ELSE <<(x[i] - y[i] - Borrow(x, y, i + 1) + 10) % 10>> \o SubDigits(x, y, i + 1)

\* |a - b|
AbsDiff(a, b) ==
    LET e  == CommonExp(a, b)
        x  == AlignDigits(a, e, CommonLen(a, b))
        y  == AlignDigits(b, e, CommonLen(a, b))
    IN  DecimalNormalize(Dec(FALSE, IF DigitsLess(x, y) THEN SubDigits(y, x, 1)
                                                        ELSE SubDigits(x, y, 1), e))

\* magnitude(sub(a, b)) of two vectors that differ in at most one
\* component: the absolute difference of that component.
Distance(a, b) ==
    LET differ == { i \in DOMAIN a : a[i] # b[i] }
    IN  IF differ = {} THEN Zero
        ELSE LET i == CHOOSE j \in differ : TRUE IN AbsDiff(a[i], b[i])

(***************************************************************************)
(* Point titles.                                                           *)
(***************************************************************************)
\* f"{k}" for an integer k >= 0: its decimal digits
RECURSIVE IntDigits(_)
IntDigits(k) == IF k < 10 THEN <<k>> ELSE IntDigits(k \div 10) \o <<k % 10>>

\* str.rjust(size, '0'): zeros on the left up to size characters, never cut
Rjust(ds, size) == IF Len(ds) >= size THEN ds ELSE Zeros(size - Len(ds)) \o ds

\* the number written without the padding
GroupNumberUnpadded(index, size_of_digits) == IntDigits(index + 1)

_group_number(index, size_of_digits) == Rjust(IntDigits(index + 1), size_of_digits)

_define_point_title(index, size_of_digits) ==
    [prefix |-> "point_", number |-> _group_number(index, size_of_digits)]

\* the float of a small non-negative integer
IntToDec(k) == DecimalNormalize(Dec(FALSE, IntDigits(k), 0))

(***************************************************************************)
(* _determine_network.  A group is named by its place in the group list.   *)
(* A dictionary is the sequence of its items in insertion order.  Indices  *)
(* into points and canonical indices count from 0 as in the source.        *)
(* zinc holds what the Zinc library answers: the size of the mesh, the     *)
(* group list, the material value at the start and at the end of each      *)
(* group and, for a group and another group, the nearest location on the   *)
(* other group to the start of the first.  Every group of the list has     *)
(* elements, so none of the 1D groups is None or empty.                    *)
(***************************************************************************)
None == 0

\* math.inf
Infinity == Dec(FALSE, <<>>, 0)

\* a < b for a, b >= 0 or math.inf
LessThan(a, b) ==
    IF a = Infinity THEN FALSE
    ELSE IF b = Infinity THEN TRUE
    ELSE DecLess(a, b)

Abs(k) == IF k < 0 THEN -k ELSE k

GroupNames(epd) == { epd[i].group_name : i \in DOMAIN epd }

EndPointsOf(epd, group_name) ==
    epd[CHOOSE i \in DOMAIN epd : epd[i].group_name = group_name].end_points

\* start_coordinate[:2] = end_points[0][0], the third component 0.0
StartCoordinate(epd, group_name) ==
    <<EndPointsOf(epd, group_name)[1][1][1], EndPointsOf(epd, group_name)[1][1][2], Zero>>

\* the choice that keeps the last of the candidates at equal distances
RECURSIVE NearestCandidateLatest(_, _, _, _, _)
NearestCandidateLatest(z, group_name, start_coordinate, gi, best) ==
    IF gi > Len(z.group_list) THEN best
    ELSE LET group == z.group_list[gi]
         IN  IF group_name = group \/ ~z.nearest[<<group_name, group>>].valid
             THEN NearestCandidateLatest(z, group_name, start_coordinate, gi + 1, best)
             ELSE LET mesh_location == z.nearest[<<group_name, group>>]
                      values == mesh_location.values
                      tol  == _calculate_tolerance(start_coordinate \o values)
                      diff == Distance(start_coordinate, values)
                  IN  NearestCandidateLatest(z, group_name, start_coordinate, gi + 1,
                          IF LessThan(diff, tol) /\ ~LessThan(best.diff, diff)
                          THEN [diff |-> diff, branch |-> group,
                                location |-> mesh_location.material_values,
                                values |-> values]
                          ELSE best)

\* lines 389-409: for group in group_list, the nearest location on the other
\* groups to the start of group_name; the closest one below the tolerance
\* is kept, the first one on equal distances
RECURSIVE NearestCandidate(_, _, _, _, _)
NearestCandidate(z, group_name, start_coordinate, gi, best) ==
    IF gi > Len(z.group_list) THEN best
    ELSE LET group == z.group_list[gi]
         IN  IF group_name = group \/ ~z.nearest[<<group_name, group>>].valid
             THEN NearestCandidate(z, group_name, start_coordinate, gi + 1, best)
             ELSE LET mesh_location == z.nearest[<<group_name, group>>]
                      values == mesh_location.values
                      tol  == _calculate_tolerance(start_coordinate \o values)
                      diff == Distance(start_coordinate, values)
                  IN  NearestCandidate(z, group_name, start_coordinate, gi + 1,
                          IF LessThan(diff, tol) /\ LessThan(diff, best.diff)
                          THEN [diff |-> diff, branch |-> group,
                                location |-> mesh_location.material_values,
                                values |-> values]
                          ELSE best)

NoCandidate == [diff |-> Infinity, branch |-> None, location |-> None, values |-> <<>>]

\* network_points.get(name, [(0.0, start), (1.0, end)]) stored under name;
\* the offsets are kept as fractions <<numerator, denominator>>
HasItem(np, name) == \E i \in DOMAIN np : np[i].group_name = name

\* the default list with the end point of the group's last chain
DefaultPointsLastChain(epd, name) ==
    << [offset |-> <<0, 1>>, point |-> EndPointsOf(epd, name)[1][1]],
       [offset |-> <<1, 1>>,
        point  |-> EndPointsOf(epd, name)[Len(EndPointsOf(epd, name))][2]] >>

DefaultPoints(epd, name) ==
    << [offset |-> <<0, 1>>, point |-> EndPointsOf(epd, name)[1][1]],
       [offset |-> <<1, 1>>, point |-> EndPointsOf(epd, name)[1][2]] >>

WithDefault(np, epd, name) ==
    IF HasItem(np, name) THEN np
    ELSE Append(np, [group_name |-> name, values |-> DefaultPoints(epd, name)])

\* an insertion that lands in the list of every group
AppendValueToAll(np, name, v) ==
    [i \in DOMAIN np |-> [np[i] EXCEPT !.values = Append(@, v)]]

AppendValue(np, name, v) ==
    [i \in DOMAIN np |->
        IF np[i].group_name = name THEN [np[i] EXCEPT !.values = Append(@, v)]
        ELSE np[i]]

\* lines 418-432.  int_length / branch_length raises ZeroDivisionError when
\* the parent's start and end material values coincide.
RECURSIVE RegisterFrom(_, _, _, _, _, _)
RegisterFrom(epd, mv, sv, ev, i, np) ==
    IF i > Len(epd) THEN [raised |-> FALSE, network_points |-> np]
    ELSE LET group_name == epd[i].group_name
             np1        == WithDefault(np, epd, group_name)
             values     == mv[group_name]
             int_branch == values.branch
         IN  IF int_branch = None THEN RegisterFrom(epd, mv, sv, ev, i + 1, np1)
             ELSE LET branch_length == Abs(ev[int_branch] - sv[int_branch])
                      int_length    == Abs(values.location - sv[int_branch])
                      np2           == WithDefault(np1, epd, int_branch)
                  IN  IF branch_length = 0
                      THEN [raised |-> TRUE, network_points |-> np2]
                      ELSE RegisterFrom(epd, mv, sv, ev, i + 1,
                               AppendValue(np2, int_branch,
                                   [offset |-> <<int_length, branch_length>>,
                                    point  |-> <<values.values[1], values.values[2]>>]))

\* lines 434-439: points.append(v[1]) over the items of network_points
RECURSIVE FlattenPoints(_)
FlattenPoints(np) ==
    IF np = <<>> THEN <<>>
    ELSE [j \in DOMAIN np[1].values |-> np[1].values[j].point] \o FlattenPoints(Tail(np))

\* numbers.extend(v[1])
RECURSIVE PointNumbers(_)
PointNumbers(pts) ==
    IF pts = <<>> THEN <<>> ELSE <<pts[1][1], pts[1][2]>> \o PointNumbers(Tail(pts))

\* lines 443-446: begin_hash[key] = begin_hash.get(key, index)
RECURSIVE FirstIndexHash(_, _, _, _)
FirstIndexHash(pts, tol, index, hash) ==
    IF index >= Len(pts) THEN hash
    ELSE LET k == _create_key(pts[index + 1], tol)
         IN  FirstIndexHash(pts, tol, index + 1,
                 IF k \in DOMAIN hash THEN hash
                 ELSE [x \in DOMAIN hash \cup {k} |-> IF x = k THEN index ELSE hash[x]])

\* lines 452-459: index_map and network_points_2
RECURSIVE CanonicalIndices(_, _, _, _, _)
CanonicalIndices(pts, tol, hash, i, acc) ==
    IF i > Len(pts) THEN acc
    ELSE LET index == hash[_create_key(pts[i], tol)]
         IN  CanonicalIndices(pts, tol, hash, i + 1,
                 IF index \in DOMAIN acc.index_map THEN acc
                 ELSE [index_map |->
                           [x \in DOMAIN acc.index_map \cup {index} |->
                               IF x = index THEN Len(acc.network_points_2)
                               ELSE acc.index_map[x]],
                       network_points_2 |-> Append(acc.network_points_2, pts[i])])

\* sorted(values, key=lambda tup: tup[0]): a stable sort
OffsetLeq(a, b) == a[1] * b[2] <= b[1] * a[2]

RECURSIVE InsertSorted(_, _)
InsertSorted(sorted, v) ==
    IF sorted = <<>> THEN <<v>>
    ELSE IF OffsetLeq(Head(sorted).offset, v.offset)
         THEN <<Head(sorted)>> \o InsertSorted(Tail(sorted), v)
         ELSE <<v>> \o sorted

RECURSIVE SortedValues(_)
SortedValues(values) ==
    IF values = <<>> THEN <<>>
    ELSE InsertSorted(SortedValues(SubSeq(values, 1, Len(values) - 1)),
                      values[Len(values)])

InSeq(x, sq) == \E i \in DOMAIN sq : sq[i] = x

\* lines 467-472: the labels of one group, each appended unless it is
\* already in the list
RECURSIVE EdgeLabels(_, _, _, _, _, _)
EdgeLabels(sorted_values, tol, hash, imap, size_of_digits, acc) ==
    IF sorted_values = <<>> THEN acc
    ELSE LET index == hash[_create_key(Head(sorted_values).point, tol)]
             mapped_name == _define_point_title(imap[index], size_of_digits)
         IN  EdgeLabels(Tail(sorted_values), tol, hash, imap, size_of_digits,
                 IF InSeq(mapped_name, acc) THEN acc ELSE Append(acc, mapped_name))

\* lines 418-474 as a function of the end points and of what was located:
\* the (offset, point) lists, the canonical points and the labelled edges.
\* raised tells which exception ended the call.
NetworkFrom(epd, mv, sv, ev) ==
    LET done == RegisterFrom(epd, mv, sv, ev, 1, <<>>)
        pts  == FlattenPoints(done.network_points)
        tol  == _calculate_tolerance(PointNumbers(pts))
        kt   == Reciprocal(tol)
        hash == FirstIndexHash(pts, kt, 0, EmptyHash)
        canonical == CanonicalIndices(pts, kt, hash, 1,
                         [index_map |-> EmptyHash, network_points_2 |-> <<>>])
        size_of_digits == Len(IntDigits(Len(canonical.network_points_2)))
        blank == [raised |-> "ZeroDivisionError",
                  network_points |-> done.network_points, points |-> <<>>,
                  key_tolerance |-> Zero, begin_hash |-> EmptyHash,
                  index_map |-> EmptyHash, final_network_points |-> <<>>,
                  final_network |-> <<>>]
    IN  IF done.raised THEN blank
        ELSE IF IsZero(tol) THEN [blank EXCEPT !.points = pts]
        ELSE [raised |-> "none",
              network_points |-> done.network_points,
              points |-> pts,
              key_tolerance |-> kt,
              begin_hash |-> hash,
              index_map |-> canonical.index_map,
              final_network_points |-> canonical.network_points_2,
              final_network |->
                  [i \in DOMAIN done.network_points |->
                      [group_name |-> done.network_points[i].group_name,
                       labels |-> EdgeLabels(SortedValues(done.network_points[i].values),
                                             kt, hash, canonical.index_map,
                                             size_of_digits, <<>>)]]]

(***************************************************************************)
(* The network assembler on networks of groups along the x axis.  Group g  *)
(* runs from the point (2g - 1, 0) to the point (2g, 0), with the material *)
(* value 0 at its start and 2 at its end.  The first group (the trunk) may *)
(* be closed (its end point is 1e-14 off its start point) or flat (its two *)
(* material values coincide).  A group may branch off another group: its   *)
(* start is its own point or the end point of the parent, and the nearest  *)
(* location the library finds on the parent is that start point exactly, a *)
(* point 1e-13 below it, a point 1e-14 above it, or (far) the parent's     *)
(* start.  The library answers one query in one way: a group that starts   *)
(* at the end point of its parent is found at the parent's end value.      *)
(* A group may have a second chain, from (2g - 1, 1) to (2g, 1).           *)
(***************************************************************************)
MaxGroups == 3

WideGroups == 6

TrunkKinds == {"open", "closed", "flat"}

Unattached == [parent |-> None, at |-> "own", shift |-> "exact", material |-> 0]

Attachments ==
    { [at |-> "own", shift |-> "exact", material |-> 1],     \* offset 0.5
      [at |-> "own", shift |-> "below", material |-> 1],
      [at |-> "own", shift |-> "above", material |-> 1],
      [at |-> "own", shift |-> "far",   material |-> 1],
      [at |-> "end", shift |-> "exact", material |-> 2],     \* the parent's end
      [at |-> "own", shift |-> "exact", material |-> 3] }    \* offset 1.5

\* the ways the groups after the second one branch off
LateAttachments ==
    { a \in Attachments : a.at = "own" /\ a.shift \in {"exact", "below"} }

\* the groups that may be found as the parent of group g among n groups:
\* the trunk or, for the first two groups, the next group; the wide
\* networks are made of unattached groups
Parents(g, n) ==
    IF n > MaxGroups THEN {}
    ELSE ((IF g <= 2 THEN {1, g + 1} ELSE {1}) \cap (1..n)) \ {g}

OptionsOf(g, n) ==
    {Unattached} \cup
    { [parent |-> h, at |-> a.at, shift |-> a.shift, material |-> a.material] :
          h \in Parents(g, n),
          a \in (IF g <= 2 THEN Attachments ELSE LateAttachments) }

\* the choices of one option for each of the groups g..n
RECURSIVE OptionsFrom(_, _)
OptionsFrom(g, n) ==
    IF g > n THEN {<<>>}
    ELSE { <<o>> \o rest : o \in OptionsOf(g, n), rest \in OptionsFrom(g + 1, n) }

OptionChoices(n) == OptionsFrom(1, n)

GroupCounts == (0..MaxGroups) \cup {WideGroups}

OwnStartX(g) == 2 * g - 1

\* the float 1e-14 above the integer k, and the float 1e-13 below it
Above(k) == Dec(FALSE, IntDigits(k) \o Zeros(13) \o <<1>>, -14)

Below(k) == Dec(FALSE, StripLeading(IntDigits(k - 1) \o [i \in 1..13 |-> 9]), -13)

OwnEndX(g, kind) ==
    IF g = 1 /\ kind = "closed" THEN Above(OwnStartX(1)) ELSE IntToDec(2 * g)

StartX(g, opt, kind) ==
    IF opt.at = "end" THEN OwnEndX(opt.parent, kind) ELSE IntToDec(OwnStartX(g))

PointAt(x) == <<x, Zero>>

\* the x coordinate of the location found on the parent for the start of
\* group g
LocatedX(g, opt, kind) ==
    CASE opt.shift = "exact" -> StartX(g, opt, kind)
      [] opt.shift = "below" -> Below(OwnStartX(g))
      [] opt.shift = "above" -> Above(OwnStartX(g))
      [] opt.shift = "far"   -> IntToDec(OwnStartX(opt.parent))

\* the material value at the end of group g
EndMaterial(g, kind) == IF g = 1 /\ kind = "flat" THEN 0 ELSE 2

\* a further chain of group g, off the x axis
SecondChain(g) ==
    << <<IntToDec(OwnStartX(g)), IntToDec(1)>>, <<IntToDec(2 * g), IntToDec(1)>> >>

\* every group with the end points of its chains: one chain, or a second
\* chain as well
EndPointData(n, kind, opts, chains) ==
    [g \in 1..n |->
        [group_name |-> g,
         end_points |-> << <<PointAt(StartX(g, opts[g], kind)),
                             PointAt(OwnEndX(g, kind))>> >>
                        \o (IF chains = 2 THEN <<SecondChain(g)>> ELSE <<>>)]]

Zinc(n, kind, opts, mesh_size) ==
    [mesh_size  |-> mesh_size,
     group_list |-> [g \in 1..n |-> g],
     material   |-> [g \in 1..n |->
                        [start |-> 0, end |-> EndMaterial(g, kind)]],
     nearest    |-> [gh \in { p \in (1..n) \X (1..n) : p[1] # p[2] } |->
                        IF opts[gh[1]].parent = gh[2]
                        THEN [valid  |-> TRUE,
                              values |-> <<LocatedX(gh[1], opts[gh[1]], kind),
                                           Zero, Zero>>,
                              material_values |->
                                  IF opts[gh[1]].at = "end"
                                  THEN EndMaterial(gh[2], kind)
                                  ELSE opts[gh[1]].material]
                        ELSE [valid |-> FALSE, values |-> <<>>,
                              material_values |-> None]]]

InitNet ==
    /\ pc = "net_call"
    /\ TolIdle
    /\ StitchIdle
    /\ ExportIdle
    /\ \E n \in GroupCounts, kind \in TrunkKinds :
           /\ n = 0 => kind = "open"
           /\ \E opts \in OptionChoices(n) :
              \E mesh_size \in (IF n = 0 THEN {0, 1} ELSE {n}) :
              \E chains \in (IF n = 0 THEN {1} ELSE {1, 2}) :
                  /\ end_point_data = EndPointData(n, kind, opts, chains)
                  /\ zinc = Zinc(n, kind, opts, mesh_size)
    /\ start_value = <<>> /\ end_value = <<>> /\ min_value = <<>>
    /\ network_points = <<>> /\ points = <<>> /\ index_map = EmptyHash
    /\ final_network_points = <<>> /\ final_network = <<>>

\* lines 330-334: return [] when the mesh is None or has no element
ReturnEmpty ==
    /\ pc = "net_call"
    /\ zinc.mesh_size = 0
    /\ pc' = "net_empty"
    /\ UNCHANGED <<expVars, tolVars, stitchVars, netVars>>

\* lines 363-409: the material values of every group and its nearest
\* candidate parent
LocateBranches ==
    /\ pc = "net_call"
    /\ zinc.mesh_size # 0
    /\ start_value' = [g \in GroupNames(end_point_data) |-> zinc.material[g].start]
    /\ end_value' = [g \in GroupNames(end_point_data) |-> zinc.material[g].end]
    /\ min_value' = [g \in GroupNames(end_point_data) |->
                        NearestCandidate(zinc, g, StartCoordinate(end_point_data, g),
                                         1, NoCandidate)]
    /\ pc' = "net_located"
    /\ UNCHANGED <<expVars, tolVars, stitchVars, end_point_data, zinc, network_points,
                   points, index_map, final_network_points, final_network>>

\* lines 418-432: the (offset, point) list of every group
RegisterPoints ==
    /\ pc = "net_located"
    /\ LET done == RegisterFrom(end_point_data, min_value, start_value,
                                end_value, 1, <<>>)
       IN  /\ network_points' = done.network_points
           /\ pc' = IF done.raised THEN "net_raised" ELSE "net_registered"
    /\ UNCHANGED <<expVars, tolVars, stitchVars, end_point_data, zinc, start_value,
                   end_value, min_value, points, index_map,
                   final_network_points, final_network>>

\* lines 434-461: the flattened points, the global tolerance, the first
\* index of every key and the canonical points.  1 / 0.0 raises
\* ZeroDivisionError.
CanonicalPoints ==
    /\ pc = "net_registered"
    /\ LET pts == FlattenPoints(network_points)
           tol == _calculate_tolerance(PointNumbers(pts))
       IN  /\ points' = pts
           /\ IF IsZero(tol)
              THEN /\ pc' = "net_raised"
                   /\ UNCHANGED <<key_tolerance, begin_hash, index_map,
                                  final_network_points>>
              ELSE LET kt   == Reciprocal(tol)
                       hash == FirstIndexHash(pts, kt, 0, EmptyHash)
                       done == CanonicalIndices(pts, kt, hash, 1,
                                   [index_map |-> EmptyHash, network_points_2 |-> <<>>])
                   IN  /\ key_tolerance' = kt
                       /\ begin_hash' = hash
                       /\ index_map' = done.index_map
                       /\ final_network_points' = done.network_points_2
                       /\ pc' = "net_canonical"
    /\ UNCHANGED <<expVars, tolVars, curve, uf, sets, segments, set_index, seg, s, key,
                   runs, first_chains, unionVars, end_point_data, zinc, start_value,
                   end_value, min_value, network_points, final_network>>

\* lines 462-474: the labels of every group in the order of the offsets
LabelEdges ==
    /\ pc = "net_canonical"
    /\ LET size_of_digits == Len(IntDigits(Len(final_network_points)))
       IN  final_network' =
               [i \in DOMAIN network_points |->
                   [group_name |-> network_points[i].group_name,
                    labels |-> EdgeLabels(SortedValues(network_points[i].values),
                                          key_tolerance, begin_hash, index_map,
                                          size_of_digits, <<>>)]]
    /\ pc' = "net_done"
    /\ UNCHANGED <<expVars, tolVars, stitchVars, end_point_data, zinc, start_value,
                   end_value, min_value, network_points, points, index_map,
                   final_network_points>>

NextNet ==
    \/ ReturnEmpty
    \/ LocateBranches
    \/ RegisterPoints
    \/ CanonicalPoints
    \/ LabelEdges

SpecNet == InitNet /\ [][NextNet]_vars

(***************************************************************************)
(* Properties of the network assembler.                                    *)
(***************************************************************************)
KeyOf(p) == _create_key(p, key_tolerance)

\* the label the assembler gives to a point
LabelOf(p) ==
    _define_point_title(index_map[begin_hash[KeyOf(p)]],
                        Len(IntDigits(Len(final_network_points))))

EdgeOf(group_name) ==
    final_network[CHOOSE i \in DOMAIN final_network :
                      final_network[i].group_name = group_name].labels

StartPoint(group_name) == EndPointsOf(end_point_data, group_name)[1][1]

\* the end point of the group's chain 0
EndPoint(group_name) == EndPointsOf(end_point_data, group_name)[1][2]

\* the end point of the group's last chain
LastChainEnd(group_name) ==
    LET end_points == EndPointsOf(end_point_data, group_name)
    IN  end_points[Len(end_points)][2]

\* C4: the NetworkEdge of every group begins with the label of the group's
\* own start point and ends with the label of the group's own end point,
\* whether or not points were inserted into the group.
C4_EdgeEndsAtOwnEndPoints ==
    pc = "net_done" =>
        \A g \in GroupNames(final_network) :
            /\ EdgeOf(g)[1] = LabelOf(StartPoint(g))
            /\ EdgeOf(g)[Len(EdgeOf(g))] = LabelOf(EndPoint(g))

\* the keys of a list of points under the global tolerance
RECURSIVE PointKeys(_)
PointKeys(pts) ==
    IF pts = <<>> THEN <<>> ELSE <<KeyOf(pts[1])>> \o PointKeys(Tail(pts))

\* the places in a list of keys where a key appears for the first time
FirstPlaces(keys) ==
    { i \in DOMAIN keys : \A j \in 1..(i - 1) : keys[j] # keys[i] }

\* the number of key k in the order of first appearance, from 1
RankOf(keys, k) ==
    LET first == CHOOSE i \in FirstPlaces(keys) : keys[i] = k
    IN  Cardinality({ f \in FirstPlaces(keys) : f <= first })

DigitCount(k) == IF k < 10 THEN 1 ELSE IF k < 100 THEN 2 ELSE 3

\* 'point_' followed by the number padded with zeros to width characters
PaddedTitle(number, width) ==
    [prefix |-> "point_",
     number |-> Zeros(width - DigitCount(number)) \o IntDigits(number)]

\* C5: every point of the flattened list maps to one canonical point: the
\* canonical indices number the keys 1, 2, 3, ... in the order of their
\* first appearance (so two points share an index iff their keys are
\* equal), the returned list holds the first point of every key in that
\* order, and the labels of an edge are those of its points, each 'point_'
\* and the index padded with zeros to the digit count of the number of
\* distinct points.
C5_CanonicalPoints ==
    pc = "net_done" =>
        LET keys   == PointKeys(points)
            firsts == FirstPlaces(keys)
            width  == DigitCount(Cardinality(firsts))
        IN  /\ \A i \in DOMAIN points :
                   index_map[begin_hash[keys[i]]] + 1 = RankOf(keys, keys[i])
            /\ Len(final_network_points) = Cardinality(firsts)
            /\ \A f \in firsts : final_network_points[RankOf(keys, keys[f])] = points[f]
            /\ \A k \in DOMAIN final_network :
                   /\ final_network[k].group_name = network_points[k].group_name
                   /\ { final_network[k].labels[j] : j \in DOMAIN final_network[k].labels }
                          = { PaddedTitle(RankOf(keys, KeyOf(network_points[k].values[j].point)),
                                          width) :
                                  j \in DOMAIN network_points[k].values }

\* C5 witness: a network with at least ten canonical points in which two
\* different points of the list share a key, labelled point_01, point_02, ...
C5_Witness ==
    /\ pc = "net_done"
    /\ Len(final_network_points) >= 10
    /\ \E i, j \in DOMAIN points :
           i < j /\ points[i] # points[j] /\ KeyOf(points[i]) = KeyOf(points[j])
    /\ EdgeOf(1)[1] = [prefix |-> "point_", number |-> <<0, 1>>]

\* a sequence without the elements equal to the element just before them
RECURSIVE SkipRepeats(_)
SkipRepeats(sq) ==
    IF Len(sq) <= 1 THEN sq
    ELSE LET front == SkipRepeats(SubSeq(sq, 1, Len(sq) - 1))
         IN  IF sq[Len(sq)] = sq[Len(sq) - 1] THEN front ELSE Append(front, sq[Len(sq)])

InsertedValues(k) == SubSeq(network_points[k].values, 3, Len(network_points[k].values))

StrictlyInside(offset) == 0 < offset[1] /\ offset[1] < offset[2]

\* C6: when the points inserted into a parent group all lie at offsets
\* strictly between 0 and 1, the parent's NetworkEdge is the parent's start
\* label, the labels of the inserted points in ascending order of their
\* offsets, and the parent's end label (a label that repeats the one before it
\* being written once).
C6_EdgeInOffsetOrder ==
    pc = "net_done" =>
        \A k \in DOMAIN network_points :
            (/\ InsertedValues(k) # <<>>
             /\ \A j \in DOMAIN InsertedValues(k) : StrictlyInside(InsertedValues(k)[j].offset))
            => LET g      == network_points[k].group_name
                   inside == SortedValues(InsertedValues(k))
               IN  EdgeOf(g) =
                       SkipRepeats(<<LabelOf(StartPoint(g))>>
                                   \o [j \in DOMAIN inside |-> LabelOf(inside[j].point)]
                                   \o <<LabelOf(EndPoint(g))>>)

\* C7: for a group G with a recorded parent P, the first label of G's
\* NetworkEdge (the label of G's own start point) is also in P's NetworkEdge.
C7_BranchJoinsParent ==
    pc = "net_done" =>
        \A g \in GroupNames(end_point_data) :
            min_value[g].branch # None =>
                InSeq(EdgeOf(g)[1], EdgeOf(min_value[g].branch))

(***************************************************************************)
(* export_flatmapsvg_from_scene.  The region is a list of elements, each   *)
(* one evaluable (its coordinates and derivatives can be evaluated) or     *)
(* not, and a list of groups, each one named "marker" or not, with the     *)
(* elements it contains.  The path points of an element stand as the       *)
(* element's number.  A dictionary is the sequence of its items in         *)
(* insertion order.  The elements lie along the line y = 1, each of length *)
(* 1: every element starts where the element before it ends, or no two     *)
(* elements share a point.                                                 *)
(***************************************************************************)
Ungrouped == [prefix |-> "ungrouped", number |-> <<>>]

_define_group_label(group_index, size_of_digits) ==
    [prefix |-> "group_", number |-> _group_number(group_index, size_of_digits)]

\* group_name.replace("group_", "nerve_feature_")
_group_svg_id(group_name) ==
    IF group_name.prefix = "group_"
    THEN [group_name EXCEPT !.prefix = "nerve_feature_"]
    ELSE group_name

HasKey(dict, k) == \E i \in DOMAIN dict : dict[i].key = k

Get(dict, k) == dict[CHOOSE i \in DOMAIN dict : dict[i].key = k].value

AppendTo(dict, k, v) ==
    [i \in DOMAIN dict |->
        IF dict[i].key = k THEN [dict[i] EXCEPT !.value = Append(@, v)] ELSE dict[i]]

\* lines 258-265: an entry for every group that is not named "marker"
RECURSIVE GroupEntries(_, _, _, _)
GroupEntries(group_list, group_index, size_of_digits, acc) ==
    IF group_index >= Len(group_list) THEN acc
    ELSE LET group == group_list[group_index + 1]
             group_label == _define_group_label(group_index, size_of_digits)
         IN  GroupEntries(group_list, group_index + 1, size_of_digits,
                 IF group.name # "marker"
                 THEN [grouped_path_points |->
                           Append(acc.grouped_path_points,
                                  [key |-> group_label, value |-> <<>>]),
                       svg_id_group_map |->
                           Append(acc.svg_id_group_map,
                                  [key |-> _group_svg_id(group_label),
                                   value |-> [name |-> group.name,
                                              index |-> group_index]])]
                 ELSE acc)

\* lines 287-292: the groups that contain the element.  The label of a
\* group named "marker" is no key of grouped_path_points: KeyError.
RECURSIVE ScanGroups(_, _, _, _, _, _)
ScanGroups(group_list, element, group_index, size_of_digits, gpp, in_group) ==
    IF group_index >= Len(group_list)
    THEN [raised |-> "none", grouped_path_points |-> gpp, in_group |-> in_group]
    ELSE IF element \in group_list[group_index + 1].elements
         THEN LET group_label == _define_group_label(group_index, size_of_digits)
              IN  IF ~HasKey(gpp, group_label)
                  THEN [raised |-> "KeyError", grouped_path_points |-> gpp,
                        in_group |-> in_group]
                  ELSE ScanGroups(group_list, element, group_index + 1, size_of_digits,
                                  AppendTo(gpp, group_label, element), TRUE)
         ELSE ScanGroups(group_list, element, group_index + 1, size_of_digits,
                         gpp, in_group)

\* lines 273-297: the loop over the elements; bound tells whether the
\* name mesh_group has been assigned
RECURSIVE ScanElements(_, _, _, _, _)
ScanElements(sc, element, size_of_digits, gpp, bound) ==
    IF element > Len(sc.elements)
    THEN [raised |-> "none", grouped_path_points |-> gpp, bound |-> bound]
    ELSE IF ~sc.elements[element]
         THEN ScanElements(sc, element + 1, size_of_digits, gpp, bound)
         ELSE LET scan == ScanGroups(sc.group_list, element, 0, size_of_digits,
                                     gpp, FALSE)
              IN  IF scan.raised # "none"
                  THEN [raised |-> scan.raised, grouped_path_points |-> gpp,
                        bound |-> TRUE]
                  ELSE ScanElements(sc, element + 1, size_of_digits,
                           IF scan.in_group THEN scan.grouped_path_points
                           ELSE AppendTo(gpp, Ungrouped, element),
                           bound \/ sc.group_list # <<>>)

\* _analyze_elements: [] for a mesh without elements.  "del mesh_group"
\* raises UnboundLocalError when no evaluable element was tried against a
\* group.  (No element is a branching element here.)
_analyze_elements(sc) ==
    IF Len(sc.elements) = 0 THEN [raised |-> "none", value |-> <<>>]
    ELSE LET size_of_digits == Len(IntDigits(Len(sc.group_list)))
             entries == GroupEntries(sc.group_list, 0, size_of_digits,
                            [grouped_path_points |-> <<[key |-> Ungrouped, value |-> <<>>]>>,
                             svg_id_group_map |-> <<>>])
             scan == ScanElements(sc, 1, size_of_digits,
                                  entries.grouped_path_points, FALSE)
         IN  IF scan.raised # "none" THEN [raised |-> scan.raised, value |-> <<>>]
             ELSE IF ~scan.bound THEN [raised |-> "UnboundLocalError", value |-> <<>>]
             ELSE [raised |-> "none",
                   value  |-> <<scan.grouped_path_points, <<>>, entries.svg_id_group_map>>]

\* an element has length 1 along the x axis: it starts where the element
\* before it ends, or one unit after that end
ElementStart(sc, e) == IF sc.shared_nodes THEN e ELSE 2 * e - 1

\* lines 276-283: (values, derivatives) at xi_1 = 0 and at xi_1 = 1
LinePathPoints(sc, e) ==
    << << <<ElementStart(sc, e), 1, 0>>,     <<3, 0, 0>> >>,
       << <<ElementStart(sc, e) + 1, 1, 0>>, <<3, 0, 0>> >> >>

\* vectorops add, sub and div on the first two components; the derivatives
\* of the model are multiples of 3
add(u, v) == <<u[1] + v[1], u[2] + v[2]>>

sub(u, v) == <<u[1] - v[1], u[2] - v[2]>>

div(u, d) == <<u[1] \div d, u[2] \div d>>

Floats(u) == <<IntToDec(u[1]), IntToDec(u[2])>>

_calculate_bezier_curve(pt_1, pt_2) ==
    LET h0 == pt_1[1]
        v0 == pt_1[2]
        h1 == pt_2[1]
        v1 == pt_2[2]
    IN  << Floats(h0), Floats(add(h0, div(v0, 3))),
           Floats(sub(h1, div(v1, 3))), Floats(h1) >>

\* the groups that have path points, each with the curves of its elements
RECURSIVE _calculate_bezier_control_points(_, _)
_calculate_bezier_control_points(sc, point_data) ==
    IF point_data = <<>> THEN <<>>
    ELSE (IF point_data[1].value # <<>>
          THEN <<[key   |-> point_data[1].key,
                  value |-> [j \in DOMAIN point_data[1].value |->
                                LET curve_pts == LinePathPoints(sc, point_data[1].value[j])
                                IN  _calculate_bezier_curve(curve_pts[1], curve_pts[2])]]>>
          ELSE <<>>)
         \o _calculate_bezier_control_points(sc, Tail(point_data))

\* lines 661-664: the calls of logger.warning for a group of several chains.
\* A warning is its text with the values formatted into it, here points.
SamePointText ==
    "Two (or more) of the following points should have been detected as the same point."

Formatted(kind, value) == [kind |-> kind, value |-> value]

FragmentationWarnings(connected_paths) ==
    IF Len(connected_paths) > 1
    THEN <<[text |-> SamePointText, values |-> <<>>]>>
         \o [c \in DOMAIN connected_paths |->
                [text   |-> "{} - {}",
                 values |-> <<Formatted("point", connected_paths[c][1][1]),
                              Formatted("point",
                                  connected_paths[c][Len(connected_paths[c])][4])>>]]
    ELSE <<>>

\* the warnings of the groups, in the order of the groups
RECURSIVE WarningsOf(_)
WarningsOf(paths) ==
    IF paths = <<>> THEN <<>>
    ELSE FragmentationWarnings(paths[1].value) \o WarningsOf(Tail(paths))

\* line 660: connected_paths = _connected_segments(bezier_data[group_name]),
\* for every group
StitchedGroups(bezier_data) ==
    [i \in DOMAIN bezier_data |-> _connected_segments(bezier_data[i].value)]

\* lines 657-669 with the chains found for every group.  1 / 0.0 in
\* _connected_segments raises ZeroDivisionError and ends the loop over the
\* groups.
CollectedPaths(bezier_data, stitched) ==
    LET failed == { i \in DOMAIN stitched : stitched[i].raised }
        done   == IF failed = {} THEN Len(stitched)
                  ELSE (CHOOSE i \in failed : \A j \in failed : i <= j) - 1
        paths  == [i \in 1..done |->
                      [key |-> bezier_data[i].key, value |-> stitched[i].segments]]
    IN  [raised |-> IF failed = {} THEN "none" ELSE "ZeroDivisionError",
         warnings |-> WarningsOf(paths),
         collection_of_paths |-> paths]

\* _collect_curves_into_segments: the chains of every group and the warnings
\* logged on the way
_collect_curves_into_segments(bezier_data) ==
    CHOOSE result \in { CollectedPaths(bezier_data, stitched) :
                            stitched \in {StitchedGroups(bezier_data)} } : TRUE

\* lines 104-110: the end points (c[0][0], c[-1][3]) of the chains of every
\* group, under the name of the group.  "ungrouped" is no key of
\* svg_id_group_map: KeyError.
RECURSIVE EndPointsFrom(_, _, _)
EndPointsFrom(segs, map, acc) ==
    IF segs = <<>> THEN [raised |-> "none", end_point_data |-> acc]
    ELSE LET connected_segment == segs[1].value
             end_points == [c \in DOMAIN connected_segment |->
                               <<connected_segment[c][1][1],
                                 connected_segment[c][Len(connected_segment[c])][4]>>]
             svg_id == _group_svg_id(segs[1].key)
         IN  IF ~HasKey(map, svg_id) THEN [raised |-> "KeyError", end_point_data |-> acc]
             ELSE EndPointsFrom(Tail(segs), map,
                      Append(acc, [group_name |-> Get(map, svg_id),
                                   end_points |-> end_points]))

\* the path commands of the chains: every chain is moved to with M and
\* each of its curves drawn with C
RECURSIVE PathCommands(_)
PathCommands(bezier_path) ==
    IF bezier_path = <<>> THEN <<>>
    ELSE LET bezier_section == bezier_path[1]
         IN  <<[command |-> "M", at |-> <<bezier_section[1][1]>>]>>
             \o [j \in DOMAIN bezier_section |->
                    [command |-> "C",
                     at |-> <<bezier_section[j][2], bezier_section[j][3],
                              bezier_section[j][4]>>]]
             \o PathCommands(Tail(bezier_path))

\* the path element of one group; group_name is <<>> for None
_write_connected_svg_bezier_path(bezier_path, group_name) ==
    [d      |-> PathCommands(bezier_path),
     stroke |-> IF group_name = <<>> THEN "grey" ELSE "#01136e",
     title  |-> IF group_name = <<>> THEN <<>>
                ELSE <<_group_svg_id(group_name[1])>>]

\* _write_into_svg_format: a circle for every network point and a path for
\* every item of connected_paths (the region has no marker points)
_write_into_svg_format(connected_paths, net_points) ==
    LET size_of_digits == Len(IntDigits(Len(net_points)))
    IN  [circles |-> [i \in DOMAIN net_points |->
                         [point |-> net_points[i],
                          title |-> _define_point_title(i - 1, size_of_digits)]],
         paths   |-> [i \in DOMAIN connected_paths |->
                         _write_connected_svg_bezier_path(
                             connected_paths[i].value,
                             IF connected_paths[i].key # Ungrouped
                             THEN <<connected_paths[i].key>> ELSE <<>>)]]

MaxElements == 2

MaxGroupList == 2

\* the lists of at most MaxGroupList groups over e elements; the names of
\* the groups of a region are distinct, so at most one is named "marker"
GroupLists(e) ==
    { gl \in UNION { [1..g -> [name : {"marker", "nerve"}, elements : SUBSET (1..e)]] :
                         g \in 0..MaxGroupList } :
          \A i, j \in DOMAIN gl : (gl[i].name = "marker" /\ gl[j].name = "marker") => i = j }

\* the scenes of e elements
Scenes(e) ==
    { [elements |-> ev, group_list |-> gl, shared_nodes |-> sn] :
          ev \in [1..e -> BOOLEAN], gl \in GroupLists(e), sn \in BOOLEAN }

InitExport ==
    /\ pc = "export_call"
    /\ TolIdle
    /\ StitchIdle
    /\ NetIdle
    /\ \E e \in 0..MaxElements : scene \in Scenes(e)
    /\ analysis = <<>> /\ path_points = <<>> /\ svg_id_group_map = <<>>
    /\ connected_segments = <<>> /\ warnings = <<>> /\ network_plan = <<>>
    /\ svg = <<>> /\ properties = <<>>
    /\ raised = "none"
    /\ ObjectIdle

\* the call of _analyze_elements at line 100
AnalyzeElements ==
    /\ pc = "export_call"
    /\ LET result == _analyze_elements(scene)
       IN  IF result.raised # "none"
           THEN /\ raised' = result.raised
                /\ pc' = "export_raised"
                /\ UNCHANGED analysis
           ELSE /\ analysis' = result.value
                /\ pc' = "export_analyzed"
                /\ UNCHANGED raised
    /\ UNCHANGED <<objVars, tolVars, stitchVars, netVars, scene, path_points,
                   svg_id_group_map, connected_segments, warnings, network_plan,
                   svg, properties>>

\* line 100: path_points, branching_points, svg_id_group_map = ...
\* Unpacking a list that has not three items raises ValueError.
UnpackAnalysis ==
    /\ pc = "export_analyzed"
    /\ IF Len(analysis) # 3
       THEN /\ raised' = "ValueError"
            /\ pc' = "export_raised"
            /\ UNCHANGED <<path_points, svg_id_group_map>>
       ELSE /\ path_points' = analysis[1]
            /\ svg_id_group_map' = analysis[3]
            /\ pc' = "export_unpacked"
            /\ UNCHANGED raised
    /\ UNCHANGED <<objVars, tolVars, stitchVars, netVars, scene, analysis,
                   connected_segments, warnings, network_plan, svg, properties>>

\* lines 101-103
CollectCurves ==
    /\ pc = "export_unpacked"
    /\ \E bezier \in {_calculate_bezier_control_points(scene, path_points)} :
       \E result \in {_collect_curves_into_segments(bezier)} :
           /\ warnings' = result.warnings
           /\ IF result.raised # "none"
              THEN /\ raised' = result.raised
                   /\ pc' = "export_raised"
                   /\ UNCHANGED connected_segments
              ELSE /\ connected_segments' = result.collection_of_paths
                   /\ pc' = "export_collected"
                   /\ UNCHANGED raised
    /\ UNCHANGED <<objVars, tolVars, stitchVars, netVars, scene, analysis, path_points,
                   svg_id_group_map, network_plan, svg, properties>>

\* lines 104-110
BuildEndPointData ==
    /\ pc = "export_collected"
    /\ LET result == EndPointsFrom(connected_segments, svg_id_group_map, <<>>)
       IN  /\ end_point_data' = result.end_point_data
           /\ raised' = result.raised
           /\ pc' = IF result.raised # "none" THEN "export_raised"
                    ELSE "export_end_points"
    /\ UNCHANGED <<objVars, tolVars, stitchVars, zinc, start_value, end_value, min_value,
                   network_points, points, index_map, final_network_points,
                   final_network, scene, analysis, path_points, svg_id_group_map,
                   connected_segments, warnings, network_plan, svg, properties>>

\* line 112: network_plan, network_points = _determine_network(...), in a
\* region where the library finds no group to start on another group.  []
\* cannot be unpacked into two names (ValueError), and without any group
\* 1 / _calculate_tolerance([]) raises ZeroDivisionError.
DetermineNetwork ==
    /\ pc = "export_end_points"
    /\ IF Len(scene.elements) = 0
       THEN /\ raised' = "ValueError"
            /\ pc' = "export_raised"
            /\ UNCHANGED <<network_plan, min_value, network_points, points,
                           key_tolerance, begin_hash, index_map,
                           final_network_points, final_network>>
       ELSE \E located \in {[g \in GroupNames(end_point_data) |-> NoCandidate]} :
            \E network \in {NetworkFrom(end_point_data, located, <<>>, <<>>)} :
                /\ min_value' = located
                /\ network_points' = network.network_points
                /\ points' = network.points
                /\ key_tolerance' = network.key_tolerance
                /\ begin_hash' = network.begin_hash
                /\ index_map' = network.index_map
                /\ final_network_points' = network.final_network_points
                /\ final_network' = network.final_network
                /\ network_plan' = [i \in DOMAIN network.final_network |->
                                       [key   |-> network.final_network[i].group_name,
                                        value |-> network.final_network[i].labels]]
                /\ raised' = network.raised
                /\ pc' = IF network.raised # "none" THEN "export_raised"
                         ELSE "export_network"
    /\ UNCHANGED <<objVars, tolVars, curve, uf, sets, segments, set_index, seg, s, key,
                   runs, first_chains, unionVars, end_point_data, zinc, start_value, end_value,
                   scene, analysis, path_points, svg_id_group_map,
                   connected_segments, warnings, svg, properties>>

\* lines 113-171: the svg, the centreline features, the network and the
\* two files
WriteFiles ==
    /\ pc = "export_network"
    /\ svg' = _write_into_svg_format(connected_segments, final_network_points)
    /\ properties' =
           [features |-> [i \in DOMAIN svg_id_group_map |->
                             [key   |-> svg_id_group_map[i].key,
                              value |-> [label |-> svg_id_group_map[i].value,
                                         type  |-> "centreline"]]],
            networks |-> [i \in DOMAIN network_plan |->
                             [id |-> svg_id_group_map[
                                         CHOOSE j \in DOMAIN svg_id_group_map :
                                             svg_id_group_map[j].value = network_plan[i].key].key,
                              label    |-> network_plan[i].key,
                              connects |-> network_plan[i].value]]]
    /\ pc' = "export_done"
    /\ UNCHANGED <<objVars, tolVars, stitchVars, netVars, scene, analysis, path_points,
                   svg_id_group_map, connected_segments, warnings, network_plan,
                   raised>>

NextExport ==
    \/ AnalyzeElements
    \/ UnpackAnalysis
    \/ CollectCurves
    \/ BuildEndPointData
    \/ DetermineNetwork
    \/ WriteFiles

SpecExport == InitExport /\ [][NextExport]_vars

(***************************************************************************)
(* Properties of the export.                                               *)
(***************************************************************************)
\* C8: when the mesh has no element or the region has no group, the export
\* completes without raising.
C8_EmptyInputCompletes ==
    (scene # <<>> /\ (scene.elements = <<>> \/ scene.group_list = <<>>)) =>
        pc # "export_raised"

(***************************************************************************)
(* The stitcher on a path of two curves A -> J, J' -> C whose joint J, J'  *)
(* carries floating-point noise: one coordinate of J and J' differs by one *)
(* unit of its 15th significant digit, the other coordinate is the same.   *)
(***************************************************************************)
\* pairs of floats one unit of the 15th significant digit apart
NoisePairs ==
    { <<Dec(FALSE, <<1,3,5,3,3,8,8,5,4,4,0,1,1,6,5>>, -12),          \* 135.338854401165
        Dec(FALSE, <<1,3,5,3,3,8,8,5,4,4,0,1,1,6,6>>, -12)>>,        \* 135.338854401166
      <<Dec(TRUE,  <<3,8,6,6,5,3,9,4,0,6,8,4,2,0,7>>, -13),          \* -38.6653940684207
        Dec(TRUE,  <<3,8,6,6,5,3,9,4,0,6,8,4,2,0,8>>, -13)>>,        \* -38.6653940684208
      <<Dec(FALSE, <<2,9,9,9,9,9,9,9,9,9,9,9,9,9,9>>, -14),          \* 2.99999999999999
        Dec(FALSE, <<3>>, 0)>>,                                      \* 3.0
      <<Dec(FALSE, <<2,2,3,4,5,6,7,8,9,0,1,2,3,4,5,6,7>>, -17),      \* 0.22345678901234567
        Dec(FALSE, <<2,2,3,4,5,6,7,8,9,0,1,2,3,4,6,6,7>>, -17)>> }   \* 0.22345678901234667

\* the coordinates of the far ends A and C, and the coordinate the joint
\* shares exactly
FarNumbers ==
    { Dec(FALSE, <<1>>, 0),                                          \* 1.0
      Dec(FALSE, <<5>>, 0),                                          \* 5.0
      Dec(FALSE, <<1,2,3,4,5,6,7,8,9,0,1,2,3,4,5,6,6>>, -17),        \* 0.12345678901234566
      Dec(FALSE, <<2,2,3,4,5,6,7,8,9,0,1,2,3,4,0,6,7>>, -17) }       \* 0.22345678901234067

Place(u, fill, axis) == IF axis = 1 THEN <<u, fill>> ELSE <<fill, u>>

NoisyCurveLists ==
    { << <<<<a, a>>, NULL, NULL, Place(pair[1 + flip], fill, axis)>>,
         <<Place(pair[2 - flip], fill, axis), NULL, NULL, <<c, c>>>> >> :
          pair \in NoisePairs, flip \in {0, 1}, axis \in {1, 2},
          fill \in FarNumbers, a \in FarNumbers, c \in FarNumbers }

InitNoise ==
    /\ pc = "stitch_call"
    /\ TolIdle
    /\ NetIdle
    /\ ExportIdle
    /\ curve \in { cl \in NoisyCurveLists : cl[1][1] # cl[2][4] }
    /\ key_tolerance = Zero /\ begin_hash = EmptyHash
    /\ uf = <<>> /\ sets = <<>> /\ segments = <<>> /\ set_index = 0
    /\ seg = <<>> /\ s = 0 /\ key = <<>> /\ runs = 1 /\ first_chains = {}
    /\ UnionIdle

SpecNoise == InitNoise /\ [][NextStitch]_vars

\* C11: the two end points of a joint that differ only in the 15th
\* significant digit of a coordinate receive the same key under the
\* tolerance of the list, and the path stitches into one chain.
C11_NoisyJointIsOneChain ==
    pc = "stitch_done" =>
        /\ EndKey(1) = StartKey(2)
        /\ Len(segments) = 1

(***************************************************************************)
(* The tolerance engine on a batch and on the same batch with every value  *)
(* multiplied by 10.                                                       *)
(***************************************************************************)
\* n * 10
TimesTen(n) == TimesPowerOfTen(n, PowerOfTen(1))

\* a second call of _calculate_tolerance, on the batch scaled by 10
ScaleByTen ==
    /\ pc = "tol_done"
    /\ first_tolerance = <<>>
    /\ first_tolerance' = <<tolerance>>
    /\ numbers' = [i \in DOMAIN numbers |-> TimesTen(numbers[i])]
    /\ pc' = "tol_call"
    /\ UNCHANGED <<expVars, tolerance, stitchVars, netVars>>

NextScale == CalculateTolerance \/ ScaleByTen

SpecScale == InitTol /\ [][NextScale]_vars

\* a <= 10 * b and b <= 10 * a
WithinFactorTen(a, b) ==
    /\ ~DecLess(TimesTen(b), a)
    /\ ~DecLess(TimesTen(a), b)

\* C12: the value returned for a batch scaled by 10 is within a factor of 10
\* of the value returned for the batch.
C12_RescalingInvariance ==
    (pc = "tol_done" /\ first_tolerance # <<>>) =>
        WithinFactorTen(first_tolerance[1], tolerance)

(***************************************************************************)
(* Forks of the stitcher.                                                  *)
(***************************************************************************)
\* the curves reached from the curves of set along at most fuel links
RECURSIVE ReachedFrom(_, _)
ReachedFrom(set, fuel) ==
    LET next == set \cup UNION { Successors(i) : i \in set }
    IN  IF fuel = 0 \/ next = set THEN set ELSE ReachedFrom(next, fuel - 1)

NoCycle ==
    \A i \in DOMAIN curve : i \notin ReachedFrom(Successors(i), Len(curve))

\* two curves hang together when one follows the other or both start at
\* the same key
Linked(i, j) == Follows(i, j) \/ Follows(j, i) \/ StartKey(i) = StartKey(j)

RECURSIVE LinkedTo(_, _)
LinkedTo(set, fuel) ==
    LET next == set \cup { j \in DOMAIN curve : \E i \in set : Linked(i, j) }
    IN  IF fuel = 0 \/ next = set THEN set ELSE LinkedTo(next, fuel - 1)

SharedStarts ==
    { pair \in SUBSET (DOMAIN curve) :
          /\ Cardinality(pair) = 2
          /\ \A i, j \in pair : StartKey(i) = StartKey(j) }

\* The curves form one path with a single fork: they hang together, exactly
\* two of them share a start key, and no walk along the links comes back to
\* a curve.
SingleFork ==
    /\ curve # <<>>
    /\ LinkedTo({1}, Len(curve)) = DOMAIN curve
    /\ Cardinality(SharedStarts) = 1
    /\ NoCycle

\* C13: on a list whose curves form one path with a single fork, in any
\* input order, _connected_segments returns exactly 2 chains.
C13_ForkGivesTwoChains ==
    (pc = "stitch_done" /\ SingleFork) => Len(segments) = 2

\* every curve of the chain sg but the first starts at the key the curve
\* before it ends at
LinkedInOrder(sg) ==
    \A j \in 1..(Len(sg) - 1) : EndKey(sg[j]) = StartKey(sg[j + 1])

\* C14: in every chain of _connected_segments, the one under construction
\* included, the key of the end point of a curve is the key of the start
\* point of the curve after it, under the tolerance of the list.
C14_ConsecutiveCurvesLinked ==
    (pc \in {"for_sets", "while", "break", "stitch_done"}) =>
        /\ LinkedInOrder(seg)
        /\ \A k \in DOMAIN segments : LinkedInOrder(segments[k])

\* C14 witness: a chain of three curves, taken from a list that gives them
\* out of order, was returned.
C14_Witness ==
    /\ pc = "stitch_done"
    /\ \E k \in DOMAIN segments :
           /\ Len(segments[k]) = 3
           /\ segments[k][1] > segments[k][2]

(***************************************************************************)
(* Properties of the export.                                               *)
(***************************************************************************)
\* the elements of the mesh whose field data can be evaluated
Evaluable == { e \in DOMAIN scene.elements : scene.elements[e] }

\* a region with elements and groups in which every element belongs to a
\* group and no group is named "marker"
GroupedScene ==
    /\ scene # <<>>
    /\ scene.elements # <<>>
    /\ scene.group_list # <<>>
    /\ \A g \in DOMAIN scene.group_list : scene.group_list[g].name # "marker"
    /\ \A e \in DOMAIN scene.elements :
           \E g \in DOMAIN scene.group_list : e \in scene.group_list[g].elements

\* the elements that have path points under the label of group g, and under
\* "ungrouped"
ElementsOf(points_of, label) ==
    IF HasKey(points_of, label)
    THEN { Get(points_of, label)[i] : i \in DOMAIN Get(points_of, label) }
    ELSE {}

\* C15: an element whose field data cannot be evaluated contributes no
\* segment to any group nor to "ungrouped", every other element is still
\* processed, and the export does not abort.
C15_MissingFieldDataDropped ==
    (GroupedScene /\ Evaluable # DOMAIN scene.elements) =>
        /\ pc # "export_raised"
        /\ path_points # <<>> =>
               /\ ElementsOf(path_points, Ungrouped) = {}
               /\ \A g \in DOMAIN scene.group_list :
                      ElementsOf(path_points,
                                 _define_group_label(g - 1, Len(IntDigits(Len(scene.group_list)))))
                          = scene.group_list[g].elements \cap Evaluable

(***************************************************************************)
(* Groups without a parent.                                                *)
(***************************************************************************)
\* no candidate parent within tolerance was found for the start of group g
NoParent(g) == min_value[g].branch = None

\* the groups whose recorded parent is group h
Children(h) == { c \in GroupNames(end_point_data) : min_value[c].branch = h }

\* the point that group c found on its parent
LocatedPoint(c) == <<min_value[c].values[1], min_value[c].values[2]>>

ValuesOf(h) ==
    network_points[CHOOSE k \in DOMAIN network_points :
                       network_points[k].group_name = h].values

Labels(edge) == { edge[j] : j \in DOMAIN edge }

\* the point list of every group holds its two end points and one point
\* for each of its children, the point the child found on it
OnlyChildrenInserted ==
    \A k \in DOMAIN network_points :
        LET h == network_points[k].group_name
        IN  /\ Len(network_points[k].values) = 2 + Cardinality(Children(h))
            /\ \A j \in DOMAIN InsertedValues(k) :
                   \E c \in Children(h) : InsertedValues(k)[j].point = LocatedPoint(c)

C18_TopologicalEndPoints ==
    pc \in {"net_registered", "net_canonical", "net_done"} =>
        \A g \in GroupNames(end_point_data) :
            /\ ValuesOf(g)[1] = [offset |-> <<0, 1>>, point |-> StartPoint(g)]
            /\ ValuesOf(g)[2] = [offset |-> <<1, 1>>, point |-> LastChainEnd(g)]

(***************************************************************************)
(* Groups of several chains in the export.                                 *)
(***************************************************************************)
\* the end point data with the first chain of every group only
FirstChainsOnly(epd) ==
    [i \in DOMAIN epd |-> [epd[i] EXCEPT !.end_points = <<@[1]>>]]

ChainStart(chain) == chain[1][1]

ChainEnd(chain) == chain[Len(chain)][4]

RECURSIVE CurvesIn(_)
CurvesIn(chains) ==
    IF chains = <<>> THEN 0 ELSE Len(chains[1]) + CurvesIn(Tail(chains))

\* the path commands d draw every chain: one M for each chain, at the start
\* of the chain, followed by one C for each curve of the chain, and nothing
\* else
DrawsEveryChain(d, chains) ==
    /\ Cardinality({ k \in DOMAIN d : d[k].command = "M" }) = Len(chains)
    /\ Len(d) = Len(chains) + CurvesIn(chains)
    /\ \A c \in DOMAIN chains :
           \E k \in DOMAIN d :
               /\ d[k] = [command |-> "M", at |-> <<ChainStart(chains[c])>>]
               /\ \A j \in DOMAIN chains[c] :
                      /\ k + j \in DOMAIN d
                      /\ d[k + j] = [command |-> "C",
                                     at |-> <<chains[c][j][2], chains[c][j][3],
                                              chains[c][j][4]>>]

GroupNameOf(label) == Get(svg_id_group_map, _group_svg_id(label))

NamesGroup(w, label) ==
    \E k \in DOMAIN w.values :
        w.values[k].kind = "group" /\ w.values[k].value = label

\* the warning gives the start point and the end point of the chain
GivesEndsOf(w, chain) ==
    /\ Len(w.values) = 2
    /\ w.values[1] = Formatted("point", ChainStart(chain))
    /\ w.values[2] = Formatted("point", ChainEnd(chain))

Fragmented == { i \in DOMAIN connected_segments : Len(connected_segments[i].value) > 1 }

\* C19: once _collect_curves_into_segments has returned, warnings were logged
\* exactly when some group has more than one chain; for such a group a
\* warning names the group and for each of its chains a warning gives the
\* start and the end point of the chain; and every curve of every group is
\* kept in the chains of the group.
C19_FragmentationWarning ==
    pc \in {"export_collected", "export_end_points", "export_network", "export_done"} =>
        /\ (warnings # <<>>) <=> (Fragmented # {})
        /\ \A i \in Fragmented :
               /\ \E k \in DOMAIN warnings :
                      NamesGroup(warnings[k], connected_segments[i].key)
               /\ \A c \in DOMAIN connected_segments[i].value :
                      \E k \in DOMAIN warnings :
                          GivesEndsOf(warnings[k], connected_segments[i].value[c])
        /\ \A i \in DOMAIN connected_segments :
               CurvesIn(connected_segments[i].value) =
                   Len(Get(path_points, connected_segments[i].key))

(***************************************************************************)
(* ArgonSceneExporter, of flatmapsvg and of webgl: the output target over  *)
(* a sequence of calls of export.  None is <<>> and the directory d is     *)
(* <<d>>.  A file is the directory it is written to and its name.          *)
(***************************************************************************)
MaxCalls == 2

Directories == {"dir_a", "dir_b"}

OutputTargets == {<<>>} \cup { <<d>> : d \in Directories }

ExporterKinds == {"flatmapsvg", "webgl"}

DefaultPrefix(kind) ==
    IF kind = "flatmapsvg" THEN "ArgonSceneExporterWavefrontSVG"
    ELSE "ArgonSceneExporterWebGL"

\* __init__(output_target), and what the setters may have done before the
\* first export: a document or a filename may be set, setLODs may have been
\* called on a webgl exporter
InitExporter ==
    /\ pc = "exp_idle"
    /\ TolIdle
    /\ StitchIdle
    /\ NetIdle
    /\ SceneIdle
    /\ \E kind \in ExporterKinds, output_target \in OutputTargets,
          document \in BOOLEAN, filename \in BOOLEAN, LODs \in BOOLEAN :
           /\ kind = "flatmapsvg" => ~LODs
           /\ exporter = [kind |-> kind,
                          _output_target |-> output_target,
                          _prefix |-> DefaultPrefix(kind),
                          _document |-> document,
                          _filename |-> filename,
                          _multiple_levels |-> LODs]
           /\ target_history = <<output_target>>
    /\ arguments = <<>>
    /\ files = {}
    /\ WebIdle

\* every call replaces the stored target, None included
AlwaysReplace(stored, output_target) == output_target

\* if output_target is not None: self._output_target = output_target
NewTarget(stored, output_target) ==
    IF output_target # <<>> THEN output_target ELSE stored

\* BaseExporter._form_full_filename: the file of that name under the output
\* target
_form_full_filename(target, filename) == [directory |-> target, name |-> filename]

\* str(d) for a digit d
DigitChar(d) == <<"0", "1", "2", "3", "4", "5", "6", "7", "8", "9">>[d + 1]

\* str(i_).zfill(number_of_digits)
Zfill(i_, number_of_digits) ==
    [k \in DOMAIN Rjust(IntDigits(i_), number_of_digits) |->
        DigitChar(Rjust(IntDigits(i_), number_of_digits)[k])]

\* webgl.py 214-217: the name of resource i_, which has the level unless the
\* level is "low" or the exporter has one level only
_resource_filename(prefix, multiple_levels, i_, number_of_digits, tessellation_level) ==
    IF multiple_levels /\ tessellation_level # "low"
    THEN <<prefix, "_", tessellation_level, "_">> \o Zfill(i_, number_of_digits) \o <<".json">>
    ELSE <<prefix, "_">> \o Zfill(i_, number_of_digits) \o <<".json">>

\* the files of one export_webgl of two resources at a tessellation level:
\* the metadata file and a resource file
WebGLFiles(obj, tessellation_level) ==
    { _form_full_filename(obj._output_target, <<obj._prefix, "_metadata.json">>),
      _form_full_filename(obj._output_target,
          _resource_filename(obj._prefix, obj._multiple_levels, 1, 1, tessellation_level)) }

\* export(output_target) is called
CallExport ==
    /\ pc \in {"exp_idle", "exp_done", "exp_raised"}
    /\ Len(arguments) < MaxCalls
    /\ \E output_target \in OutputTargets :
           arguments' = Append(arguments, output_target)
    /\ target_history' = Append(target_history, exporter._output_target)
    /\ files' = {}
    /\ pc' = "exp_base"
    /\ UNCHANGED <<tolVars, stitchVars, netVars, sceneVars, webVars, exporter>>

\* super().export(): when there is no current document one is loaded from
\* the current filename; without a filename the call ends in an exception
BaseExport ==
    /\ pc = "exp_base"
    /\ IF exporter._document \/ exporter._filename
       THEN /\ exporter' = [exporter EXCEPT !._document = TRUE]
            /\ pc' = "exp_target"
       ELSE /\ pc' = "exp_raised"
            /\ UNCHANGED exporter
    /\ UNCHANGED <<tolVars, stitchVars, netVars, sceneVars, webVars, arguments,
                   target_history, files>>

\* flatmapsvg.py 69-70, webgl.py 40-41
StoreTarget ==
    /\ pc = "exp_target"
    /\ exporter' = [exporter EXCEPT
                       !._output_target = NewTarget(@, arguments[Len(arguments)])]
    /\ pc' = "exp_write"
    /\ UNCHANGED <<tolVars, stitchVars, netVars, sceneVars, webVars, arguments,
                   target_history, files>>

\* flatmapsvg.py 72: export_flatmapsvg().  The export of the scene may end
\* in an exception; when it gets to line 167 os.path.join raises TypeError
\* for the target None, and otherwise the svg and properties.json are
\* written.
ExportFlatmapSvg ==
    /\ pc = "exp_write"
    /\ exporter.kind = "flatmapsvg"
    /\ \E completes \in BOOLEAN :
           IF completes /\ exporter._output_target # <<>>
           THEN /\ files' = { [directory |-> exporter._output_target,
                               name |-> <<exporter._prefix, ".svg">>],
                              [directory |-> exporter._output_target,
                               name |-> <<"properties.json">>] }
                /\ pc' = "exp_done"
           ELSE /\ pc' = "exp_raised"
                /\ UNCHANGED files
    /\ UNCHANGED <<tolVars, stitchVars, netVars, sceneVars, webVars, exporter, arguments,
                   target_history>>

\* webgl.py 43-57: export_webgl at the levels high and medium when there
\* are several levels, then export_view and export_webgl.  An export_webgl
\* may end in ExportWebGLError; the files written before it stay.
ExportWebGL ==
    /\ pc = "exp_write"
    /\ exporter.kind = "webgl"
    /\ LET levels == IF exporter._multiple_levels THEN <<"high", "medium", "low">>
                     ELSE <<"None">>
           view   == _form_full_filename(exporter._output_target,
                         <<exporter._prefix, "_", "view", "_view.json">>)
       IN  \E completed \in 0..Len(levels) :
               /\ files' = UNION { WebGLFiles(exporter, levels[k]) : k \in 1..completed }
                              \cup (IF completed >= Len(levels) - 1 THEN {view} ELSE {})
               /\ pc' = IF completed = Len(levels) THEN "exp_done" ELSE "exp_raised"
    /\ UNCHANGED <<tolVars, stitchVars, netVars, sceneVars, webVars, exporter, arguments,
                   target_history>>

NextExporter ==
    \/ CallExport
    \/ BaseExport
    \/ StoreTarget
    \/ ExportFlatmapSvg
    \/ ExportWebGL

SpecExporter == InitExporter /\ [][NextExporter]_vars

SortedLabels(k) ==
    LET sorted_values == SortedValues(network_points[k].values)
    IN  [j \in DOMAIN sorted_values |-> LabelOf(sorted_values[j].point)]

\* C21: the NetworkEdge of a group is the sequence of the labels of its
\* offset-sorted points in which a label is left out only when it equals the
\* label just before it; a label that equals an earlier label that is not
\* next to it is still appended.
C21_OnlyAdjacentRepeatsSkipped ==
    pc = "net_done" =>
        \A k \in DOMAIN network_points :
            final_network[k].labels = SkipRepeats(SortedLabels(k))

(***************************************************************************)
(* The choice of the candidate parent.  MaxGroups groups lie along the x   *)
(* axis as above, every one open and of one chain, and the library answers *)
(* the query for the start of group g on group h in any of the ways above, *)
(* for every pair of groups on its own: a start may be located on several  *)
(* groups, at equal or at different distances, within the tolerance or     *)
(* not.  The groups of the region are listed in ascending or in descending *)
(* order.                                                                  *)
(***************************************************************************)
Answers == {"none", "exact", "below", "above", "far"}

\* the answers given to group g about group h: all of them to the first
\* group about the next two, fewer to the later groups
AnswersTo(g, h) ==
    IF g = 1 THEN (IF h <= 3 THEN Answers ELSE {"none", "exact"})
    ELSE IF g = 2 THEN (IF h <= 3 THEN {"none", "exact", "below"} ELSE {"none"})
    ELSE IF h = 1 THEN {"none", "below"}
    ELSE IF h = 2 THEN {"none", "far"}
    ELSE {"none"}

\* the choices of one answer for each of the groups h..n asked about for g
RECURSIVE AnswerRows(_, _, _)
AnswerRows(g, h, n) ==
    IF h > n THEN {<<>>}
    ELSE { <<a>> \o rest : a \in (IF h = g THEN {"none"} ELSE AnswersTo(g, h)),
                           rest \in AnswerRows(g, h + 1, n) }

\* a later group is located on both of the first two groups or on none
LateRows(g, n) ==
    { row \in AnswerRows(g, 1, n) : (row[1] = "none") = (row[2] = "none") }

RECURSIVE AnswerTables(_, _)
AnswerTables(g, n) ==
    IF g > n THEN {<<>>}
    ELSE { <<row>> \o rest : row \in (IF g <= 2 THEN AnswerRows(g, 1, n) ELSE LateRows(g, n)),
                             rest \in AnswerTables(g + 1, n) }

\* the library of the region whose answers are those of the table
ZincOf(n, table, descending) ==
    [mesh_size  |-> n,
     group_list |-> [i \in 1..n |-> IF descending THEN n + 1 - i ELSE i],
     material   |-> [g \in 1..n |-> [start |-> 0, end |-> 2]],
     nearest    |-> [gh \in { p \in (1..n) \X (1..n) : p[1] # p[2] } |->
                        IF table[gh[1]][gh[2]] # "none"
                        THEN [valid  |-> TRUE,
                              values |-> <<LocatedX(gh[1],
                                               [parent |-> gh[2], at |-> "own",
                                                shift |-> table[gh[1]][gh[2]],
                                                material |-> 1], "open"),
                                           Zero, Zero>>,
                              material_values |-> 1]
                        ELSE [valid |-> FALSE, values |-> <<>>,
                              material_values |-> None]]]

InitCandidates ==
    /\ pc = "net_call"
    /\ TolIdle
    /\ StitchIdle
    /\ ExportIdle
    /\ \E table \in AnswerTables(1, MaxGroups), descending \in BOOLEAN :
           /\ end_point_data =
                  EndPointData(MaxGroups, "open", [g \in 1..MaxGroups |-> Unattached], 1)
           /\ zinc = ZincOf(MaxGroups, table, descending)
    /\ start_value = <<>> /\ end_value = <<>> /\ min_value = <<>>
    /\ network_points = <<>> /\ points = <<>> /\ index_map = EmptyHash
    /\ final_network_points = <<>> /\ final_network = <<>>

NextCandidates ==
    \/ LocateBranches
    \/ RegisterPoints
    \/ CanonicalPoints
    \/ LabelEdges

SpecCandidates == InitCandidates /\ [][NextCandidates]_vars

\* the distance from the start of group g to the location found on group h
DiffTo(g, h) ==
    Distance(StartCoordinate(end_point_data, g), zinc.nearest[<<g, h>>].values)

\* the query for the start of g on h succeeded with a distance below the
\* tolerance computed from the two points
Within(g, h) ==
    /\ zinc.nearest[<<g, h>>].valid
    /\ LessThan(DiffTo(g, h),
                _calculate_tolerance(StartCoordinate(end_point_data, g)
                                         \o zinc.nearest[<<g, h>>].values))

Eligible(g) == { h \in GroupNames(end_point_data) \ {g} : Within(g, h) }

\* the place of group h in the group list of the region
PlaceOf(h) == CHOOSE i \in DOMAIN zinc.group_list : zinc.group_list[i] = h

\* C22: the candidate recorded for a group G is a group other than G whose
\* query succeeded with a distance below the tolerance, of the least
\* distance among all such groups and the earliest of them in group order on
\* equal distances (none when there is no such group); G is inserted into
\* the point list of at most one group, its recorded parent.
C22_NearestCandidateRecorded ==
    /\ min_value # <<>> =>
           \A g \in GroupNames(end_point_data) :
               LET p == min_value[g].branch
               IN  /\ p # g
                   /\ (Eligible(g) = {}) = (p = None)
                   /\ p # None =>
                          /\ p \in Eligible(g)
                          /\ min_value[g].diff = DiffTo(g, p)
                          /\ min_value[g].values = zinc.nearest[<<g, p>>].values
                          /\ \A h \in Eligible(g) :
                                 /\ ~LessThan(DiffTo(g, h), DiffTo(g, p))
                                 /\ PlaceOf(h) < PlaceOf(p) =>
                                        LessThan(DiffTo(g, p), DiffTo(g, h))
    /\ pc \in {"net_registered", "net_canonical", "net_done"} =>
           /\ OnlyChildrenInserted
           /\ \A g \in GroupNames(end_point_data) :
                  Cardinality({ h \in GroupNames(end_point_data) : g \in Children(h) }) <= 1

\* C22 witness: a finished run in which the start of one group was located
\* within tolerance on two groups at equal distances and the earlier one in
\* a descending group list was recorded, and the start of another group was
\* located within tolerance on two groups and the later, nearer one was
\* recorded, a further location being out of tolerance.
C22_Witness ==
    /\ pc = "net_done"
    /\ zinc.group_list[1] # 1
    /\ \E g \in GroupNames(end_point_data) :
           \E h \in Eligible(g) \ {min_value[g].branch} :
               /\ DiffTo(g, h) = DiffTo(g, min_value[g].branch)
               /\ PlaceOf(min_value[g].branch) < PlaceOf(h)
    /\ \E g \in GroupNames(end_point_data) :
           \E h \in Eligible(g) :
               /\ LessThan(DiffTo(g, min_value[g].branch), DiffTo(g, h))
               /\ PlaceOf(h) < PlaceOf(min_value[g].branch)
    /\ \E g, h \in GroupNames(end_point_data) :
           g # h /\ zinc.nearest[<<g, h>>].valid /\ h \notin Eligible(g)

(***************************************************************************)
(* The loop of unions of _connected_segments, one turn at a time.  called  *)
(* holds, for every call uf.union(i, j) of the loop, the arguments, the    *)
(* roots of the two arguments and the parent list before the call, the     *)
(* value returned and the parent list after the call.                      *)
(***************************************************************************)
InitUnion ==
    /\ pc = "union_call"
    /\ TolIdle
    /\ NetIdle
    /\ ExportIdle
    /\ curve \in CurveLists
    /\ key_tolerance = Zero /\ begin_hash = EmptyHash
    /\ uf = <<>> /\ sets = <<>> /\ segments = <<>> /\ set_index = 0
    /\ seg = <<>> /\ s = 0 /\ key = <<>> /\ runs = 1 /\ first_chains = {}
    /\ UnionIdle

\* lines 607-624: the tolerance, begin_hash and UnionFind(len(curve)).
\* 1 / 0.0 raises ZeroDivisionError.
HashStarts ==
    /\ pc = "union_call"
    /\ LET tol == _calculate_tolerance(CurveNumbers(curve))
       IN  IF IsZero(tol)
           THEN /\ pc' = "union_raised"
                /\ UNCHANGED <<key_tolerance, begin_hash, uf, loop_index>>
           ELSE /\ key_tolerance' = Reciprocal(tol)
                /\ begin_hash' = BuildBeginHash(curve, Reciprocal(tol), 1, EmptyHash)
                /\ uf' = UnionFindInit(Len(curve))
                /\ loop_index' = 1
                /\ pc' = "for_index"
    /\ UNCHANGED <<expVars, tolVars, netVars, curve, sets, segments, set_index, seg, s,
                   key, runs, first_chains, called>>

\* lines 625-628: one turn of "for index, c in enumerate(curve)"
UnionStep ==
    /\ pc = "for_index"
    /\ loop_index <= Len(curve)
    /\ LET y_cur == _create_key(curve[loop_index][4], key_tolerance)
       IN  IF y_cur \in DOMAIN begin_hash
           THEN /\ uf' = union(uf, begin_hash[y_cur], loop_index)
                /\ called' = Append(called,
                       [i        |-> begin_hash[y_cur],
                        j        |-> loop_index,
                        root_i   |-> FindRoot(uf, begin_hash[y_cur]),
                        root_j   |-> FindRoot(uf, loop_index),
                        before   |-> uf,
                        returned |-> UnionReturn(uf, begin_hash[y_cur], loop_index),
                        after    |-> uf'])
           ELSE UNCHANGED <<uf, called>>
    /\ loop_index' = loop_index + 1
    /\ UNCHANGED <<expVars, tolVars, netVars, curve, key_tolerance, begin_hash, sets,
                   segments, set_index, seg, s, key, runs, first_chains, pc>>

\* lines 630-636: the components, after the last turn of the loop
CollectSets ==
    /\ pc = "for_index"
    /\ loop_index > Len(curve)
    /\ \E built \in {BuildSets(uf, 1, <<>>)} :
           /\ uf' = built.parent
           /\ sets' = built.sets
    /\ pc' = "union_done"
    /\ UNCHANGED <<expVars, tolVars, netVars, curve, key_tolerance, begin_hash, segments,
                   set_index, seg, s, key, runs, first_chains, unionVars>>

NextUnion ==
    \/ HashStarts
    \/ UnionStep
    \/ CollectSets

SpecUnion == InitUnion /\ [][NextUnion]_vars

\* union(i, j) attached the root of i under the root of j and returned the
\* root of j; with one root for both it changed no root and returned it
AttachedUnderSecond(c) ==
    IF c.root_i # c.root_j
    THEN /\ c.after[c.root_i] = c.root_j
         /\ c.after[c.root_j] = -1
         /\ c.returned = c.root_j
         /\ \A x \in DOMAIN c.after :
                (c.before[x] = -1) = (c.after[x] = -1 \/ x = c.root_i)
    ELSE /\ c.returned = c.root_i
         /\ \A x \in DOMAIN c.after : (c.before[x] = -1) = (c.after[x] = -1)

\* the curves whose end key is the start key of a curve, in list order
RECURSIVE LinkedCurves(_)
LinkedCurves(n) ==
    IF n = 0 THEN <<>>
    ELSE LinkedCurves(n - 1) \o (IF EndKey(n) \in DOMAIN begin_hash THEN <<n>> ELSE <<>>)

\* C23 as stated: union(i, j) attaches the root of i under the root of j and
\* returns the root of j, and at every call of the stitcher for a curve a
\* whose end key is the start key of curve b the root of the predecessor a
\* becomes a child of the root of the successor b.
C23_AsStated ==
    \A k \in DOMAIN called :
        LET c == called[k]
            a == c.j
            b == c.i
        IN  /\ EndKey(a) = StartKey(b)
            /\ AttachedUnderSecond(c)
            /\ FindRoot(c.before, a) # FindRoot(c.before, b) =>
                   c.after[FindRoot(c.before, a)] = FindRoot(c.before, b)

\* C23 (amended): union(i, j) attaches the root of i under the root of j and
\* returns the root of j, and the stitcher calls union(b, a) for every curve
\* a whose end key is a start key, in list order, b being the curve that
\* begin_hash holds for that key: the root of the successor b becomes a child
\* of the root of the predecessor a.
C23_SuccessorUnderPredecessor ==
    /\ \A k \in DOMAIN called :
           LET c == called[k]
               a == c.j
               b == c.i
           IN  /\ EndKey(a) = StartKey(b)
               /\ b = begin_hash[EndKey(a)]
               /\ AttachedUnderSecond(c)
               /\ FindRoot(c.before, a) # FindRoot(c.before, b) =>
                      /\ c.after[FindRoot(c.before, b)] = FindRoot(c.before, a)
                      /\ FindRoot(c.after, b) = FindRoot(c.before, a)
                      /\ FindRoot(c.after, a) = FindRoot(c.before, a)
    /\ pc \in {"for_index", "union_done"} =>
           [k \in DOMAIN called |-> called[k].j]
               = LinkedCurves(Min2(loop_index - 1, Len(curve)))

\* C23 witness: the loop has ended after two calls or more, one of them with
\* an argument that was not its own root, its root being attached under
\* another root.
C23_Witness ==
    /\ pc = "union_done"
    /\ Len(called) >= 2
    /\ \E k \in DOMAIN called :
           /\ called[k].root_i # called[k].i
           /\ called[k].root_i # called[k].root_j
           /\ called[k].after[called[k].root_i] = called[k].root_j

(***************************************************************************)
(* Chains and components.                                                  *)
(***************************************************************************)
\* the representatives of the disjoint-set components of the curve indices
Representatives == { FindRoot(uf, i) : i \in DOMAIN uf }

\* the curves of the chains returned
InChains == { segments[k][j] : <<k, j>> \in { p \in (DOMAIN segments) \X (1..SegCap) :
                                                  p[2] \in DOMAIN segments[p[1]] } }

\* C24: _connected_segments returns one chain for every disjoint-set
\* component of the curve indices: as many chains as components, every chain
\* beginning with the representative of its component, no two with the same
\* one, and holding curves of that component only; the curves of a component
\* that the traversal does not reach make no further chain.
C24_OneChainPerComponent ==
    /\ pc = "stitch_done" =>
           /\ Len(segments) = Cardinality(Representatives)
           /\ { segments[k][1] : k \in DOMAIN segments } = Representatives
           /\ \A k \in DOMAIN segments :
                  \A j \in DOMAIN segments[k] :
                      FindRoot(uf, segments[k][j]) = segments[k][1]
    /\ pc \in {"while", "break"} =>
           /\ seg[1] \in Representatives
           /\ \A j \in DOMAIN seg : FindRoot(uf, seg[j]) = seg[1]

\* C24 witness: three curves in one component, of which the one chain
\* returned holds two: the third curve is in no chain.
C24_Witness ==
    /\ pc = "stitch_done"
    /\ Len(curve) = 3
    /\ Cardinality(Representatives) = 1
    /\ Len(segments) = 1
    /\ Len(segments[1]) = 2
    /\ \E i \in DOMAIN curve : i \notin InChains

(***************************************************************************)
(* The webgl exporter from line 43 of export on: the levels of detail, the *)
(* view and the resources.  The document holds its tessellations and the   *)
(* tessellation of every graphics of its regions, and its views, each with *)
(* a number of scenes.  The scene needs a number of resources; getBuffer   *)
(* gives for each of them a buffer ("ok"), a result that is not OK         *)
(* ("error") or no buffer ("none"), and the buffer of the first resource   *)
(* may hold the JSON value null ("null").  A file name is the sequence of  *)
(* its pieces.  No time range is set.                                      *)
(***************************************************************************)
MaxResources == 3

\* a number of resources written with two digits
WideResources == 10

Outcomes == {"ok", "error", "none"}

\* what getBuffer gives for n resources: any outcomes for up to MaxResources
\* resources, and at most one resource without a buffer among WideResources
Patterns(n) ==
    IF n <= MaxResources
    THEN { p \in [1..n -> Outcomes \cup {"null"}] :
               \A k \in 2..n : p[k] # "null" }
    ELSE { [k \in 1..n |-> IF k = hole THEN "none" ELSE "ok"] : hole \in 0..n }

ViewNames == <<"view_a", "view_b">>

TessellationName(level) == <<"tessellation_", level>>

\* webgl.py 96-98
RefinementFactor(level) ==
    IF level = "high" THEN 6 ELSE IF level = "medium" THEN 3 ELSE 1

\* webgl.py 84-109: a tessellation of the level is added to the document and
\* given to every graphics of the root region and of its child regions
setTessellation(document, level) ==
    [document EXCEPT
        !.Tessellations = Append(@, [Name |-> TessellationName(level),
                                     RefinementFactors |-> <<RefinementFactor(level)>>]),
        !.Graphics = [g \in DOMAIN @ |-> TessellationName(level)]]

\* the levels in ascending order
LevelAtAscending(position) ==
    CASE position = "webgl_levels"       -> "low"
      [] position = "webgl_medium_level" -> "medium"
      [] position = "webgl_low_level"    -> "high"

\* webgl.py 44, 48, 53: the level set at each of the three positions
LevelAt(position) ==
    CASE position = "webgl_levels"       -> "high"
      [] position = "webgl_medium_level" -> "medium"
      [] position = "webgl_low_level"    -> "low"

\* webgl.py 78-79
_view_filename(prefix, name) == <<prefix, "_", name, "_view.json">>

\* webgl.py 277-278
metadata_file(obj) ==
    _form_full_filename(obj._output_target, <<obj._prefix, "_metadata.json">>)

\* url.split("_")[-1]
LastPiece(url) ==
    SubSeq(url, 1 + CHOOSE k \in DOMAIN url :
                        url[k] = "_" /\ \A m \in (k + 1)..Len(url) : url[m] # "_",
           Len(url))

\* webgl.py 125-138
_define_default_LOD_obj(prefix, url) ==
    [medium |-> <<prefix, "_medium_">> \o LastPiece(url),
     close  |-> <<prefix, "_high_">> \o LastPiece(url)]

\* webgl.py 140-150: the view object of the active view, the first view of
\* the document
_define_default_view_obj(obj) ==
    IF obj._document.views = <<>> THEN <<>>
    ELSE <<_view_filename(obj._prefix, ViewNames[1])>>

\* webgl.py 233-263: the metadata, in which "memory_resource_k" is replaced
\* by the name of resource k - 1 for k = 2..number
MetadataOf(obj, number) ==
    [references |->
         [k \in 2..number |->
             _resource_filename(obj._prefix, obj._multiple_levels, k - 1,
                                Len(IntDigits(number)), obj._tessellation_level)],
     LOD |->
         [k \in 2..number |->
             IF obj._multiple_levels
             THEN <<_define_default_LOD_obj(obj._prefix,
                        _resource_filename(obj._prefix, obj._multiple_levels, k - 1,
                                           Len(IntDigits(number)),
                                           obj._tessellation_level))>>
             ELSE <<>>],
     view |-> _define_default_view_obj(obj)]

\* webgl.py 220-275: the loop over the resources from resource i on
RECURSIVE WriteResources(_, _, _, _, _)
WriteResources(obj, res, i, resource_count, acc) ==
    IF i >= Len(res) THEN acc
    ELSE IF res[i + 1] \in {"error", "none"}
    THEN WriteResources(obj, res, i + 1, resource_count, acc)
    ELSE IF res[i + 1] = "null"
    THEN [acc EXCEPT !.raised = TRUE]
    ELSE WriteResources(obj, res, i + 1, resource_count + 1,
             [raised   |-> FALSE,
              metadata |-> IF i = 0 THEN <<MetadataOf(obj, Len(res))>> ELSE acc.metadata,
              written  |->
                  Append(acc.written,
                      [resource |-> i,
                       file |->
                           IF i = 0 THEN metadata_file(obj)
                           ELSE _form_full_filename(obj._output_target,
                                    _resource_filename(obj._prefix, obj._multiple_levels,
                                        resource_count, Len(IntDigits(Len(res))),
                                        obj._tessellation_level))])])

\* webgl.py 174-275
export_webgl_from_scene(obj, res) ==
    WriteResources(obj, res, 0, 0, [raised |-> FALSE, metadata |-> <<>>, written |-> <<>>])

InitWebGL ==
    /\ pc = "webgl_levels"
    /\ TolIdle
    /\ StitchIdle
    /\ NetIdle
    /\ SceneIdle
    /\ \E LODs \in BOOLEAN, level \in {"None", "low"}, graphics \in {0, 2},
          views \in {<<>>, <<1, 2>>} :
           exporter = [kind |-> "webgl",
                       _output_target |-> <<"dir_a">>,
                       _prefix |-> DefaultPrefix("webgl"),
                       _document |-> [Tessellations |-> <<>>,
                                      Graphics |-> [g \in 1..graphics |-> <<"default">>],
                                      views |-> views],
                       _multiple_levels |-> LODs,
                       _tessellation_level |-> level]
    /\ \E n \in (0..MaxResources) \cup {WideResources} : resources \in Patterns(n)
    /\ arguments = <<>> /\ target_history = <<>> /\ files = {}
    /\ calls = <<>> /\ written = <<>> /\ metadata = <<>>

\* webgl.py 44-45, 48-49, 53-54: the level is set and setTessellation called
SetTessellation ==
    /\ pc \in {"webgl_levels", "webgl_medium_level", "webgl_low_level"}
    /\ pc = "webgl_levels" => exporter._multiple_levels
    /\ exporter' = [exporter EXCEPT
                       !._tessellation_level = LevelAt(pc),
                       !._document = setTessellation(@, LevelAt(pc))]
    /\ calls' = Append(calls, [method |-> "setTessellation", level |-> LevelAt(pc)])
    /\ pc' = CASE pc = "webgl_levels"       -> "webgl_high"
               [] pc = "webgl_medium_level" -> "webgl_medium"
               [] pc = "webgl_low_level"    -> "webgl_view"
    /\ UNCHANGED <<tolVars, stitchVars, netVars, sceneVars, arguments, target_history,
                   files, resources, written, metadata>>

\* webgl.py 56, 59-76: export_view writes a file for every view that has
\* exactly one scene
ExportView ==
    /\ \/ pc = "webgl_view"
       \/ pc = "webgl_levels" /\ ~exporter._multiple_levels
    /\ files' = files \cup
           { _form_full_filename(exporter._output_target,
                                 _view_filename(exporter._prefix, ViewNames[v])) :
                 v \in { x \in DOMAIN exporter._document.views :
                             exporter._document.views[x] = 1 } }
    /\ calls' = Append(calls, [method |-> "export_view",
                               level |-> exporter._tessellation_level])
    /\ pc' = "webgl_last"
    /\ UNCHANGED <<tolVars, stitchVars, netVars, sceneVars, exporter, arguments,
                   target_history, resources, written, metadata>>

\* webgl.py 46, 50, 57, 167-275: export_webgl writes the resources of the
\* scene, or raises ExportWebGLError
ExportWebgl ==
    /\ pc \in {"webgl_high", "webgl_medium", "webgl_last"}
    /\ calls' = Append(calls, [method |-> "export_webgl",
                               level |-> exporter._tessellation_level])
    /\ \E done \in {export_webgl_from_scene(exporter, resources)} :
           /\ written' = done.written
           /\ metadata' = done.metadata
           /\ files' = files \cup { done.written[k].file : k \in DOMAIN done.written }
           /\ pc' = IF done.raised THEN "webgl_raised"
                    ELSE CASE pc = "webgl_high"   -> "webgl_medium_level"
                           [] pc = "webgl_medium" -> "webgl_low_level"
                           [] pc = "webgl_last"   -> "webgl_done"
    /\ UNCHANGED <<tolVars, stitchVars, netVars, sceneVars, exporter, arguments,
                   target_history, resources>>

NextWebGL ==
    \/ SetTessellation
    \/ ExportView
    \/ ExportWebgl

SpecWebGL == InitWebGL /\ [][NextWebGL]_vars

\* the methods export calls from line 43 on, with the level at each call
CallsWithLevels ==
    << [method |-> "setTessellation", level |-> "high"],
       [method |-> "export_webgl",    level |-> "high"],
       [method |-> "setTessellation", level |-> "medium"],
       [method |-> "export_webgl",    level |-> "medium"],
       [method |-> "setTessellation", level |-> "low"],
       [method |-> "export_view",     level |-> "low"],
       [method |-> "export_webgl",    level |-> "low"] >>

CallsWithoutLevels(level) ==
    << [method |-> "export_view",  level |-> level],
       [method |-> "export_webgl", level |-> level] >>

IsPrefix(a, b) == Len(a) <= Len(b) /\ a = SubSeq(b, 1, Len(a))

\* C25: with LODs enabled export sets the tessellation "high" and calls
\* export_webgl, sets "medium" and calls export_webgl, sets "low", calls
\* export_view once and export_webgl, in this order, every export_webgl with
\* the graphics of the document at the tessellation of its level, and leaves
\* the level at "low"; with LODs disabled it never calls setTessellation (the
\* level and the document stay as they were) and calls export_view once and
\* then export_webgl once.
C25_ExportSequence ==
    exporter # <<>> /\ exporter.kind = "webgl" /\ pc # "exp_idle" /\ calls # <<>> =>
        IF exporter._multiple_levels
        THEN /\ IsPrefix(calls, CallsWithLevels)
             /\ pc = "webgl_done" =>
                    /\ calls = CallsWithLevels
                    /\ exporter._tessellation_level = "low"
             /\ exporter._tessellation_level = calls[Len(calls)].level
             /\ \A g \in DOMAIN exporter._document.Graphics :
                    exporter._document.Graphics[g]
                        = TessellationName(exporter._tessellation_level)
             /\ Len(exporter._document.Tessellations)
                    = Cardinality({ k \in DOMAIN calls : calls[k].method = "setTessellation" })
        ELSE /\ IsPrefix(calls, CallsWithoutLevels(exporter._tessellation_level))
             /\ pc = "webgl_done" =>
                    calls = CallsWithoutLevels(exporter._tessellation_level)
             /\ exporter._document.Tessellations = <<>>
             /\ \A g \in DOMAIN exporter._document.Graphics :
                    exporter._document.Graphics[g] = <<"default">>

\* C25 witness: an export with LODs enabled has completed after its seven
\* calls, on a document with graphics, the resource files of the levels high
\* and medium and of the level low being written.
C25_Witness ==
    /\ pc = "webgl_done"
    /\ exporter._multiple_levels
    /\ Len(calls) = 7
    /\ exporter._document.Graphics # <<>>
    /\ Len(exporter._document.Tessellations) = 3
    /\ \A level \in {"high", "medium", "low"} :
           _form_full_filename(exporter._output_target,
               _resource_filename(exporter._prefix, TRUE, 1, 1, level)) \in files

\* the file name the metadata of resource 0 gives for memory_resource_(i + 1)
NameInMetadata(i) ==
    _form_full_filename(exporter._output_target, metadata[1].references[i + 1])

\* C26: every resource i >= 1 that export_webgl_from_scene writes is written
\* to the file whose name was substituted into the metadata (resource 0) for
\* memory_resource_(i + 1), whichever resources were skipped because getBuffer
\* failed or gave no buffer.
C26_WrittenNameIsMetadataName ==
    exporter # <<>> /\ exporter.kind = "webgl" /\ metadata # <<>> =>
        \A k \in DOMAIN written :
            written[k].resource >= 1 =>
                written[k].file = NameInMetadata(written[k].resource)

\* the places <<chain, position>> of the chains returned
PlacesIn(segs) ==
    { <<k, n>> : k \in DOMAIN segs, n \in 1..MaxCurves + 1 } \cap
    UNION { {k} \X DOMAIN segs[k] : k \in DOMAIN segs }

\* C27: across the chains _connected_segments returns for a curve list no
\* curve of the list appears more than once: no two chains share a curve and
\* no chain holds a curve twice, also when the start key of a curve is its
\* own end key.
C27_NoCurveTwice ==
    pc = "stitch_done" =>
        \A a, b \in PlacesIn(segments) :
            segments[a[1]][a[2]] = segments[b[1]][b[2]] => a = b

\* the elements of the mesh that have field data and belong to no group
UngroupedElements ==
    { e \in Evaluable :
          \A g \in DOMAIN scene.group_list : e \notin scene.group_list[g].elements }

GroupNamesOf(region) == { region.group_list[g].name : g \in DOMAIN region.group_list }

\* C28: the export of a mesh with an element that belongs to no group does
\* not raise: the curves under "ungrouped" are stitched and drawn in the svg
\* (a path without title), and "ungrouped" gives no edge of the network and
\* no centreline feature.
C28_UngroupedDrawn ==
    (scene # <<>> /\ UngroupedElements # {}) =>
        /\ pc # "export_raised"
        /\ pc = "export_done" =>
               /\ \E i \in DOMAIN connected_segments :
                      /\ connected_segments[i].key = Ungrouped
                      /\ connected_segments[i].value # <<>>
                      /\ svg.paths[i].d = PathCommands(connected_segments[i].value)
                      /\ svg.paths[i].title = <<>>
               /\ \A i \in DOMAIN network_plan :
                      network_plan[i].key \in GroupNamesOf(scene)
               /\ \A i \in DOMAIN properties.features :
                      properties.features[i].value.label \in GroupNamesOf(scene)

\* the groups recorded as the candidate parent of some group
RecordedParents ==
    { min_value[g].branch : g \in { h \in DOMAIN min_value : min_value[h].branch # None } }

\* C29: whenever a candidate parent P is recorded for a group, the relative
\* offset of the branch on P is defined: P has a start and an end material
\* value and an entry in the end point data, and its end value differs from
\* its start value, so the registration of the points does not fail on a
\* missing key or on a division by zero.
C29_OffsetDefined ==
    (pc \in {"net_located", "net_registered", "net_raised", "net_done"} /\ min_value # <<>>) =>
        \A P \in RecordedParents :
            /\ P \in DOMAIN start_value
            /\ P \in DOMAIN end_value
            /\ P \in GroupNames(end_point_data)
            /\ end_value[P] # start_value[P]

====
